---- MODULE Spec2Model ----
(***************************************************************************)
(* Budget Simulator (app-one/src/streamlit_app.py): the progressive tax    *)
(* calculator, the lifestyle budget allocator that runs on every rerun of  *)
(* a Streamlit session, the submission gate and the two appends to the     *)
(* participant_data worksheet (the original record and its "-mil" twin).   *)
(* Financial model (app-two/src/Financial_model_app.py): the 300-month     *)
(* savings and net worth series of every participant row, and the loop     *)
(* that pairs each participant with its "-mil" counterpart for a report.   *)
(*                                                                         *)
(* Arithmetic.  The program computes in binary floating point.  The model  *)
(* computes with integers: money is in whole dollars, a Rate and a savings *)
(* percentage are in hundredths, and the tables below are chosen so that   *)
(* every quotient the program forms (x * rate, / 12, / 100) is exact; the  *)
(* predicate ArithmeticExact states it and holds in every reachable state. *)
(***************************************************************************)
EXTENDS Integers, Sequences, FiniteSets, TLC

VARIABLES
    tax_data,        \* the tax bracket table loaded by load_csv
    lifestyle_data,  \* the lifestyle decision table loaded by load_csv
    form,            \* per session: the widget values (st.session_state of the inputs)
    run,             \* per session: what the last run of main() computed from the form
    submitted,       \* per session: st.session_state.submitted
    pc,              \* per session: "idle", or "twin" between the two append_row calls
    doppel,          \* per session: doppel_data held by a run that is at "twin"
    sheet,           \* the participant_data worksheet: the rows appended so far
    origin,          \* history: for each row of sheet, who appended it and from what
    edits,           \* number of form edits made so far (bounded by MaxEdits)
    calls,           \* history of direct calls of the tax functions (SpecTax)
    participant_df,  \* app-two: the participant rows read from the worksheet
    skill_df,        \* app-two: the Skillset_cost_worksheet reference table
    gi_bill_df,      \* app-two: the GI_Bill_Application reference table
    applied,         \* app-two: per row handled by participant_df.apply, what the call did
    stage,           \* app-two: "apply", "report", "done" or "raised"
    index,           \* app-two: the row the report loop is at
    reports,         \* app-two: the pairs a report was generated for
    log,             \* app-two: the diagnostics printed by the report loop
    part             \* app-two: which of the file's two scripts is running

model_vars == <<participant_df, skill_df, gi_bill_df, applied, stage, index, reports, log, part>>

vars == <<tax_data, lifestyle_data, form, run, submitted, pc, doppel,
          sheet, origin, edits, calls, model_vars>>

(***************************************************************************)
(* Bounds of the model.                                                    *)
(***************************************************************************)
NumSessions == 2
MaxEdits == 3
MaxCalls == 2
MaxOrderCalls == 2

Sessions == 1 .. NumSessions

(***************************************************************************)
(* Strings.  A TLA+ string cannot be taken apart, so the strings the       *)
(* program inspects character by character are looked up in Chars, which   *)
(* spells each of them out.                                                *)
(***************************************************************************)
Chars(s) ==
    CASE s = "Whatever Is Left" -> <<"W","h","a","t","e","v","e","r"," ","I","s"," ","L","e","f","t">>
      [] s = "whatever is left" -> <<"w","h","a","t","e","v","e","r"," ","i","s"," ","l","e","f","t">>
      [] s = "Save 10%"         -> <<"S","a","v","e"," ","1","0","%">>
      [] s = "Save Some"        -> <<"S","a","v","e"," ","S","o","m","e">>
      [] s = "Nothing"          -> <<"N","o","t","h","i","n","g">>
      [] s = "10%"              -> <<"1","0","%">>
      [] s = "some%"            -> <<"s","o","m","e","%">>
      [] s = "Yes"              -> <<"Y","e","s">>
      [] s = "yes"              -> <<"y","e","s">>
      [] s = "No"               -> <<"N","o">>
      [] s = "Electrician" -> <<"E","l","e","c","t","r","i","c","i","a","n">>
      [] s = "Engineer" -> <<"E","n","g","i","n","e","e","r">>
      [] s = " Engineer " -> <<" ","E","n","g","i","n","e","e","r"," ">>
      [] s = "Plumber" -> <<"P","l","u","m","b","e","r">>
      [] s = "Part Time" -> <<"P","a","r","t"," ","T","i","m","e">>
      [] s = "Full Time" -> <<"F","u","l","l"," ","T","i","m","e">>
      [] s = "no" -> <<"n","o">>
      [] s = " NO " -> <<" ","N","O"," ">>
      [] s = "" -> <<>>
      [] s = "Al" -> <<"A","l">>
      [] s = "Al-mil" -> <<"A","l","-","m","i","l">>
      [] s = " Al " -> <<" ","A","l"," ">>
      [] s = "Sam" -> <<"S","a","m">>
      [] s = "Sam-mil" -> <<"S","a","m","-","m","i","l">>
      [] s = "Bo-mil" -> <<"B","o","-","m","i","l">>
      [] s = "Bo-mil-mil" -> <<"B","o","-","m","i","l","-","m","i","l">>
      [] s = "-mil" -> <<"-","m","i","l">>
      [] s = "n/a" -> <<"n","/","a">>
      [] s = "12" -> <<"1","2">>
      [] s = "Profession" -> <<"P","r","o","f","e","s","s","i","o","n">>
      [] s = "profession" -> <<"p","r","o","f","e","s","s","i","o","n">>
      [] s = " Profession " -> <<" ","P","r","o","f","e","s","s","i","o","n"," ">>
      [] s = "Months School" -> <<"M","o","n","t","h","s"," ","S","c","h","o","o","l">>
      [] s = "Monthly Savings in School" -> <<"M","o","n","t","h","l","y"," ","S","a","v","i","n","g","s"," ","i","n"," ","S","c","h","o","o","l">>
      [] s = "Monthly Savings" -> <<"M","o","n","t","h","l","y"," ","S","a","v","i","n","g","s">>
      [] s = " Monthly Savings " -> <<" ","M","o","n","t","h","l","y"," ","S","a","v","i","n","g","s"," ">>

UpperCase == <<"A","B","C","D","E","F","G","H","I","J","K","L","M",
               "N","O","P","Q","R","S","T","U","V","W","X","Y","Z">>
LowerCase == <<"a","b","c","d","e","f","g","h","i","j","k","l","m",
               "n","o","p","q","r","s","t","u","v","w","x","y","z">>

LowerOf == [k \in 1 .. Len(UpperCase) |-> LowerCase[k]]
UpperIndex == [c \in {UpperCase[k] : k \in 1 .. Len(UpperCase)} |->
                  CHOOSE k \in 1 .. Len(UpperCase) : UpperCase[k] = c]

\* str.lower() on the characters of a string
Lower(cs) ==
    [i \in 1 .. Len(cs) |->
        IF cs[i] \in DOMAIN UpperIndex THEN LowerOf[UpperIndex[cs[i]]] ELSE cs[i]]

RECURSIVE LStrip(_, _)
LStrip(cs, c) == IF cs # <<>> /\ Head(cs) = c THEN LStrip(Tail(cs), c) ELSE cs

RECURSIVE RStrip(_, _)
RStrip(cs, c) ==
    IF cs # <<>> /\ cs[Len(cs)] = c THEN RStrip(SubSeq(cs, 1, Len(cs) - 1), c) ELSE cs

\* str.strip("%"): the character removed from both ends
Strip(cs, c) == RStrip(LStrip(cs, c), c)

Digits == <<"0","1","2","3","4","5","6","7","8","9">>

IsDigit(c) == \E k \in 1 .. Len(Digits) : Digits[k] = c

DigitValue(c) == (CHOOSE k \in 1 .. Len(Digits) : Digits[k] = c) - 1

RECURSIVE DecimalValue(_)
DecimalValue(cs) ==
    IF cs = <<>> THEN 0
    ELSE 10 * DecimalValue(SubSeq(cs, 1, Len(cs) - 1)) + DigitValue(cs[Len(cs)])

\* float(text) for the texts of the tables: digits give their value, anything
\* else raises ValueError (ok = FALSE)
ParseFloat(cs) ==
    IF cs # <<>> /\ \A i \in 1 .. Len(cs) : IsDigit(cs[i])
    THEN [ok |-> TRUE, value |-> DecimalValue(cs)]
    ELSE [ok |-> FALSE, value |-> 0]

Min(a, b) == IF a <= b THEN a ELSE b
Max(a, b) == IF a >= b THEN a ELSE b

(***************************************************************************)
(* The tax bracket table.  A row has the columns of 2024_Tax_worksheet;    *)
(* "Upper Bound" is <<>> for a blank cell (NaN) and <<u>> for the value u; *)
(* Rate is in hundredths.  Rows are in file order, which need not be       *)
(* sorted.                                                                 *)
(***************************************************************************)
Bracket(status, type, lower, upper, rate, deduction) ==
    [Status |-> status, Type |-> type, LowerBound |-> lower, UpperBound |-> upper,
     Rate |-> rate, StandardDeduction |-> deduction]

SingleRows ==
    << Bracket("Single", "Federal", 0, <<>>, 10, 12000),
       Bracket("Single", "State", 0, <<>>, 5, 12000) >>

MarriedFederalRows ==
    << Bracket("Married", "Federal", 10000, <<20000>>, 20, 24000),
       Bracket("Married", "Federal", 20000, <<>>, 30, 24000),
       Bracket("Married", "Federal", 0, <<10000>>, 10, 24000) >>

MarriedStateRows ==
    << Bracket("Married", "State", 0, <<30000>>, 2, 20000) >>

FullTaxTable == SingleRows \o MarriedFederalRows \o MarriedStateRows
NoMarriedStateTable == SingleRows \o MarriedFederalRows
NoMarriedFederalTable == SingleRows \o MarriedStateRows

TaxTables == {FullTaxTable, NoMarriedStateTable, NoMarriedFederalTable}

Statuses == {"Single", "Married"}
Types == {"Federal", "State"}

\* tax_data[(tax_data["Status"] == s) & (tax_data["Type"] == t)]
SelectBrackets(table, status, type) ==
    LET Pick(r) == r.Status = status /\ r.Type = type IN SelectSeq(table, Pick)

\* a variant of SortByLower with a fault: the rows are left in file order
SortByLowerSkipped(rows) == rows

\* DataFrame.sort_values(by="Lower Bound"): rows in ascending order of the key
RECURSIVE InsertByLower(_, _)
InsertByLower(row, sorted) ==
    IF sorted = <<>> THEN <<row>>
    ELSE IF row.LowerBound < Head(sorted).LowerBound
         THEN <<row>> \o sorted
         ELSE <<Head(sorted)>> \o InsertByLower(row, Tail(sorted))

RECURSIVE SortByLower(_)
SortByLower(rows) ==
    IF rows = <<>> THEN <<>>
    ELSE InsertByLower(rows[Len(rows)], SortByLower(SubSeq(rows, 1, Len(rows) - 1)))

\* taxable * rate, with the rate in hundredths
TimesRate(amount, rate) == (amount * rate) \div 100

\* min(income, upper) - lower, upper = inf when the cell is NaN
TaxableInBracket(income, row) ==
    (IF row.UpperBound = <<>> THEN income ELSE Min(income, row.UpperBound[1]))
        - row.LowerBound

\* a variant of AddBracketTax with a fault: "tax = taxable * rate" in place of "tax += ..."
AddBracketTaxOverwrites(tax, income, row) ==
    TimesRate(TaxableInBracket(income, row), row.Rate)

\* tax += taxable * rate
AddBracketTax(tax, income, row) ==
    tax + TimesRate(TaxableInBracket(income, row), row.Rate)

\* the loop of calculate_tax over the sorted rows, from row i with tax so far
RECURSIVE TaxLoop(_, _, _, _)
TaxLoop(income, rows, i, tax) ==
    IF i > Len(rows) THEN tax
    ELSE IF income > rows[i].LowerBound
         THEN TaxLoop(income, rows, i + 1, AddBracketTax(tax, income, rows[i]))
         ELSE tax

calculate_tax(income, tax_brackets) ==
    TaxLoop(income, SortByLower(tax_brackets), 1, 0)

\* a variant of TaxableIncome with a fault: the deduction is not subtracted
TaxableIncomeNoDeduction(income, standard_deduction) == Max(0, income)

\* max(0, float(income) - float(standard_deduction))
TaxableIncome(income, standard_deduction) == Max(0, income - standard_deduction)

\* federal_brackets.empty or state_brackets.empty
TaxDataMissing(federal_brackets, state_brackets) ==
    federal_brackets = <<>> \/ state_brackets = <<>>

\* What calculate_tax_by_status returns, and whether it called st.error first.
calculate_tax_by_status(income, marital_status, table) ==
    LET federal_brackets == SelectBrackets(table, marital_status, "Federal")
        state_brackets == SelectBrackets(table, marital_status, "State")
    IN IF TaxDataMissing(federal_brackets, state_brackets)
       THEN [taxable_income |-> 0, federal_tax |-> 0, state_tax |-> 0, total_tax |-> 0,
             st_error |-> TRUE]
       ELSE LET standard_deduction == federal_brackets[1].StandardDeduction
                taxable_income == TaxableIncome(income, standard_deduction)
                federal_tax == calculate_tax(taxable_income, federal_brackets)
                state_tax == calculate_tax(taxable_income, state_brackets)
            IN [taxable_income |-> taxable_income, federal_tax |-> federal_tax,
                state_tax |-> state_tax, total_tax |-> federal_tax + state_tax,
                st_error |-> FALSE]

\* The tuple the caller receives: st_error is a side effect, not part of it.
Returned(r) == <<r.taxable_income, r.federal_tax, r.state_tax, r.total_tax>>

(***************************************************************************)
(* The profession table (Skillset_cost_worksheet) and the lifestyle table  *)
(* (Lifestyle_decisions).  A "Monthly Cost" cell is [num |-> n] when it    *)
(* holds a number and [text |-> t] when it holds text float() rejects; a   *)
(* blank Percentage cell (NaN) is the string "NaN".                        *)
(***************************************************************************)
skillset_data ==
    << [Profession |-> "Electrician", RequiresSchool |-> "No",
        AverageSalary |-> 48000, SavingsDuringSchool |-> 0],
       [Profession |-> "Engineer", RequiresSchool |-> "Yes",
        AverageSalary |-> 96000, SavingsDuringSchool |-> 12000] >>

Option(category, option, cost) ==
    [Category |-> category, Option |-> option, MonthlyCost |-> cost, Percentage |-> "NaN"]

SavingsOption(option, percentage) ==
    [Category |-> "Savings", Option |-> option, MonthlyCost |-> [text |-> ""],
     Percentage |-> percentage]

HousingRows ==
    << Option("Housing", "Rent", [num |-> 1500]),
       Option("Housing", "Military", [num |-> 0]) >>

FoodRows ==
    << Option("Food", "Groceries", [num |-> 500]),
       Option("Food", "Military", [num |-> 0]) >>

TransportationRows ==
    << Option("Transportation", "Bus", [num |-> 0]),
       Option("Transportation", "Car", [num |-> 300]) >>

ChildrenRows ==
    << Option("Children", "No Children", [num |-> 0]),
       Option("Children", "One Child", [num |-> 600]),
       Option("Children", "Military", [num |-> 300]) >>

CollegeRows ==
    << Option("Who Pays for College", "Self", [num |-> 400]),
       Option("Who Pays for College", "Military", [num |-> 0]) >>

HealthRows ==
    << Option("Health Insurance", "Standard", [num |-> 195]),
       Option("Health Insurance", "Military", [num |-> 50]) >>

SavingsRows ==
    << SavingsOption("Whatever Is Left", "NaN"),
       SavingsOption("Save 10%", "10%"),
       SavingsOption("Save Some", "some%"),
       SavingsOption("Nothing", "NaN") >>

StandardLifestyle ==
    HousingRows \o FoodRows \o TransportationRows \o ChildrenRows \o CollegeRows
        \o HealthRows \o SavingsRows

\* College is paid by the military or not at all, and no military health plan is listed.
SparseLifestyle ==
    HousingRows \o FoodRows \o TransportationRows \o ChildrenRows
        \o << Option("Who Pays for College", "Military", [num |-> 0]),
              Option("Health Insurance", "Standard", [num |-> 195]) >>
        \o SavingsRows

\* The cost of the military health plan is text, not a number.
TextCostLifestyle ==
    HousingRows \o FoodRows \o TransportationRows \o ChildrenRows \o CollegeRows
        \o << Option("Health Insurance", "Standard", [num |-> 195]),
              Option("Health Insurance", "Military", [text |-> "n/a"]) >>
        \o SavingsRows

LifestyleTables == {StandardLifestyle, SparseLifestyle, TextCostLifestyle}

\* A short table: three categories and two savings options.
CompactLifestyle ==
    HousingRows \o ChildrenRows \o HealthRows
        \o << SavingsOption("Whatever Is Left", "NaN"), SavingsOption("Save 10%", "10%") >>

ServiceChoices == <<"No", "Part Time", "Full Time">>
MaritalChoices == <<"Single", "Married">>
Names == {"", "Al"}

Range(seq) == {seq[i] : i \in 1 .. Len(seq)}

\* the Option column of the rows of one category, in table order
OptionsOf(table, category) ==
    LET Pick(r) == r.Category = category
        rows == SelectSeq(table, Pick)
    IN [i \in 1 .. Len(rows) |-> rows[i].Option]

\* lifestyle_data[(lifestyle_data["Category"] == c) & (lifestyle_data["Option"] == o)]
SelectOption(table, category, option) ==
    LET Pick(r) == r.Category = category /\ r.Option = option IN SelectSeq(table, Pick)

\* Series.unique(): the values in order of first appearance
Unique(seq) ==
    LET First(i) == \A j \in 1 .. i - 1 : seq[j] # seq[i]
        firsts == SelectSeq([i \in 1 .. Len(seq) |-> i], First)
    IN [k \in 1 .. Len(firsts) |-> seq[firsts[k]]]

Categories(table) == Unique([i \in 1 .. Len(table) |-> table[i].Category])

\* the categories the loop of Step 4 handles: all but "Savings"
LifestyleCategories(table) ==
    LET NotSavings(c) == c # "Savings" IN SelectSeq(Categories(table), NotSavings)

\* list.remove(x): the first occurrence of x is removed
RECURSIVE Remove(_, _)
Remove(seq, x) ==
    IF seq = <<>> THEN <<>>
    ELSE IF Head(seq) = x THEN Tail(seq) ELSE <<Head(seq)>> \o Remove(Tail(seq), x)

allowed_military_part_time == {"Children", "Who Pays for College", "Health Insurance"}
allowed_military_full_time ==
    {"Housing", "Food", "Children", "Who Pays for College", "Health Insurance"}

\* a variant of RemovesMilitary with a fault: "Part Time" is checked against the
\* "Full Time" list
RemovesMilitaryOneList(military_service_choice, category) ==
    \/ military_service_choice = "No"
    \/ military_service_choice = "Part Time" /\ category \notin allowed_military_full_time
    \/ military_service_choice = "Full Time" /\ category \notin allowed_military_full_time

\* the if / elif / elif under which options.remove("Military") runs
RemovesMilitary(military_service_choice, category) ==
    \/ military_service_choice = "No"
    \/ military_service_choice = "Part Time" /\ category \notin allowed_military_part_time
    \/ military_service_choice = "Full Time" /\ category \notin allowed_military_full_time

\* the options the selectbox of a category is given
Options(table, category, military_service_choice) ==
    LET options == OptionsOf(table, category)
    IN IF "Military" \in Range(options)
          /\ RemovesMilitary(military_service_choice, category)
       THEN Remove(options, "Military")
       ELSE options

\* float(cost_row["Monthly Cost"].values[0]), 0 on ValueError or when no row matches
CostOf(table, category, choice) ==
    LET cost_row == SelectOption(table, category, choice)
    IN IF cost_row # <<>> /\ "num" \in DOMAIN cost_row[1].MonthlyCost
       THEN cost_row[1].MonthlyCost.num
       ELSE 0

(***************************************************************************)
(* main(): one run of the script for one session, from the widget values.  *)
(***************************************************************************)
\* skillset_data[skillset_data["Profession"] == Profession].iloc[0]
SelectedProfession(Profession) ==
    LET Pick(r) == r.Profession = Profession IN SelectSeq(skillset_data, Pick)[1]

\* the base salary: "Savings During School" when the profession requires school
Salary(Profession) ==
    LET selected_Profession == SelectedProfession(Profession)
    IN IF Lower(Chars(selected_Profession.RequiresSchool)) = Chars("yes")
       THEN selected_Profession.SavingsDuringSchool
       ELSE selected_Profession.AverageSalary

\* (salary - federal_tax - state_tax) / 12
MonthlyIncomeAfterTax(salary, federal_tax, state_tax) ==
    (salary - federal_tax - state_tax) \div 12

\* One entry of selected_lifestyle_choices; the dict keeps insertion order.
Entry(category, choice, cost) == [Category |-> category, Choice |-> choice, Cost |-> cost]

\* the loop of Step 4 over the categories from position i on, offered[i] being the
\* options of category i: a category with no option left is skipped, the others
\* record the chosen option and its cost
RECURSIVE LifestyleLoop(_, _, _, _)
LifestyleLoop(table, f, offered, i) ==
    IF i > Len(offered) THEN <<>>
    ELSE LET category == offered[i].Category
             rest == LifestyleLoop(table, f, offered, i + 1)
         IN IF offered[i].Options = <<>> THEN rest
            ELSE <<Entry(category, f.choice[category],
                         CostOf(table, category, f.choice[category]))>> \o rest

\* savings_choice.lower() == "whatever is left"
IsWhateverIsLeft(savings_choice) ==
    Lower(Chars(savings_choice)) = Chars("whatever is left")

\* savings_percentage * monthly_income_after_tax, the percentage in hundredths
PercentageOf(percentage, monthly_income_after_tax) ==
    (percentage * monthly_income_after_tax) \div 100

\* the try block of Step 4b for an option other than "whatever is left": the
\* Percentage cell of the option's row, read as "N%", times the monthly income;
\* 0 when the cell is blank, has no "%", or float() rejects it
PercentageSavings(table, savings_choice, monthly_income_after_tax) ==
    LET savings_row == SelectOption(table, "Savings", savings_choice)
        savings_percentage_str == savings_row[1].Percentage
    IN IF savings_percentage_str # "NaN"
          /\ "%" \in Range(Chars(savings_percentage_str))
       THEN LET parsed == ParseFloat(Strip(Chars(savings_percentage_str), "%"))
            IN IF parsed.ok
               THEN PercentageOf(parsed.value, monthly_income_after_tax)
               ELSE 0
       ELSE 0

\* sum of the Cost of every entry but "Military Service" and "Savings"
RECURSIVE TotalExpenses(_)
TotalExpenses(choices) ==
    IF choices = <<>> THEN 0
    ELSE (IF Head(choices).Category \in {"Military Service", "Savings"}
          THEN 0 ELSE Head(choices).Cost)
         + TotalExpenses(Tail(choices))

\* a variant of WhateverIsLeft with a fault: an overspend gives negative savings
WhateverIsLeftUnguarded(monthly_income_after_tax, total_expenses) ==
    monthly_income_after_tax - total_expenses

\* "whatever is left", decided after the expenses are summed
WhateverIsLeft(monthly_income_after_tax, total_expenses) ==
    IF monthly_income_after_tax - total_expenses <= 0
    THEN 0
    ELSE monthly_income_after_tax - total_expenses

\* calculated_savings as it stands when the remaining budget is computed
CalculatedSavings(table, savings_choice, monthly_income_after_tax, total_expenses) ==
    IF IsWhateverIsLeft(savings_choice)
    THEN WhateverIsLeft(monthly_income_after_tax, total_expenses)
    ELSE PercentageSavings(table, savings_choice, monthly_income_after_tax)

\* monthly_income_after_tax - total_expenses - calculated_savings
RemainingBudget(monthly_income_after_tax, total_expenses, calculated_savings) ==
    monthly_income_after_tax - total_expenses - calculated_savings

\* a variant of SetSavingsCost with a fault: the Savings entry keeps the cost 0 it
\* was created with
SetSavingsCostSkipped(choices, calculated_savings) == choices

\* selected_lifestyle_choices["Savings"]["Cost"] = calculated_savings
SetSavingsCost(choices, calculated_savings) ==
    [i \in 1 .. Len(choices) |->
        IF choices[i].Category = "Savings"
        THEN [choices[i] EXCEPT !.Cost = calculated_savings]
        ELSE choices[i]]

\* What a run that raised before Step 4 leaves behind: nothing is computed.
Raised(f, tax) ==
    [raised |-> TRUE, st_error |-> tax.st_error, salary |-> Salary(f.Profession),
     standard_deduction |-> 0, taxable_income |-> tax.taxable_income,
     federal_tax |-> tax.federal_tax, state_tax |-> tax.state_tax,
     total_tax |-> tax.total_tax, monthly_income_after_tax |-> 0,
     options |-> <<>>, selected_lifestyle_choices |-> <<>>,
     total_expenses |-> 0, calculated_savings |-> 0, remaining_budget |-> 0]

\* main() up to Step 5, for the widget values f
Main(taxes, table, f) ==
    LET salary == Salary(f.Profession)
        tax == calculate_tax_by_status(salary, f.marital_status, taxes)
        federal_rows == SelectBrackets(taxes, f.marital_status, "Federal")
    IN IF federal_rows = <<>>
       THEN Raised(f, tax)   \* .iloc[0] of an empty frame: IndexError
       ELSE
       LET standard_deduction == federal_rows[1].StandardDeduction
           monthly_income_after_tax ==
               MonthlyIncomeAfterTax(salary, tax.federal_tax, tax.state_tax)
           categories == LifestyleCategories(table)
           offered == [i \in 1 .. Len(categories) |->
                         [Category |-> categories[i],
                          Options |-> Options(table, categories[i], f.Military_Service)]]
           chosen == <<Entry("Military Service", f.Military_Service, 0)>>
                       \o LifestyleLoop(table, f, offered, 1)
                       \o <<Entry("Savings", f.Savings_Choice, 0)>>
           total_expenses == TotalExpenses(chosen)
           calculated_savings ==
               CalculatedSavings(table, f.Savings_Choice, monthly_income_after_tax,
                                 total_expenses)
       IN [raised |-> FALSE, st_error |-> tax.st_error, salary |-> salary,
           standard_deduction |-> standard_deduction,
           taxable_income |-> tax.taxable_income,
           federal_tax |-> tax.federal_tax, state_tax |-> tax.state_tax,
           total_tax |-> tax.total_tax,
           monthly_income_after_tax |-> monthly_income_after_tax,
           options |-> offered,
           selected_lifestyle_choices |-> SetSavingsCost(chosen, calculated_savings),
           total_expenses |-> total_expenses,
           calculated_savings |-> calculated_savings,
           remaining_budget |->
               RemainingBudget(monthly_income_after_tax, total_expenses,
                               calculated_savings)]

(***************************************************************************)
(* Widget values.  A selectbox holds one of the options it is given: its   *)
(* first option until the user picks another, and again its first option   *)
(* when a rerun no longer offers the one it held.  A category that is left *)
(* with no option shows no selectbox (choice "").                          *)
(***************************************************************************)
CategorySet(table) == Range(LifestyleCategories(table))

FirstOption(options) == IF options = <<>> THEN "" ELSE options[1]

DefaultChoice(table, military_service_choice) ==
    [c \in CategorySet(table) |-> FirstOption(Options(table, c, military_service_choice))]

DefaultForm(table) ==
    [participant_name |-> "",
     Profession |-> skillset_data[1].Profession,
     Military_Service |-> ServiceChoices[1],
     marital_status |-> MaritalChoices[1],
     choice |-> DefaultChoice(table, ServiceChoices[1]),
     Savings_Choice |-> OptionsOf(table, "Savings")[1]]

\* the choices after a rerun with another military service option
KeptChoice(table, choice, military_service_choice) ==
    [c \in CategorySet(table) |->
        LET options == Options(table, c, military_service_choice)
        IN IF choice[c] \in Range(options) THEN choice[c] ELSE FirstOption(options)]

\* the choice functions over the categories from position i on
RECURSIVE ChoicesFrom(_, _, _, _)
ChoicesFrom(table, military_service_choice, categories, i) ==
    IF i > Len(categories) THEN {<<>>}
    ELSE LET options == Options(table, categories[i], military_service_choice)
             values == IF options = <<>> THEN {""} ELSE Range(options)
         IN {(categories[i] :> o) @@ rest :
                o \in values,
                rest \in ChoicesFrom(table, military_service_choice, categories, i + 1)}

ChoicesFor(table, military_service_choice) ==
    ChoicesFrom(table, military_service_choice, LifestyleCategories(table), 1)

\* every combination of widget values a session can show
ValidForms(table) ==
    UNION {
        [participant_name : Names,
         Profession : {skillset_data[i].Profession : i \in 1 .. Len(skillset_data)},
         Military_Service : {m},
         marital_status : Range(MaritalChoices),
         choice : ChoicesFor(table, m),
         Savings_Choice : Range(OptionsOf(table, "Savings"))]
        : m \in Range(ServiceChoices)}

\* the forms one change of one widget leads to
EditsOf(table, f) ==
    {[f EXCEPT !.participant_name = n] : n \in Names}
    \cup {[f EXCEPT !.Profession = skillset_data[i].Profession] :
             i \in 1 .. Len(skillset_data)}
    \cup {[f EXCEPT !.marital_status = m] : m \in Range(MaritalChoices)}
    \cup {[f EXCEPT !.Military_Service = m, !.choice = KeptChoice(table, f.choice, m)] :
             m \in Range(ServiceChoices)}
    \cup {[f EXCEPT !.Savings_Choice = o] : o \in Range(OptionsOf(table, "Savings"))}
    \cup UNION {{[f EXCEPT !.choice[c] = o] :
                    o \in Range(Options(table, c, f.Military_Service))} :
                c \in CategorySet(table)}

(***************************************************************************)
(* The record of Step 5.  A dict is a sequence of [key, value] in          *)
(* insertion order; the worksheet row is the values in that order, kept    *)
(* here with the column each came from.                                    *)
(***************************************************************************)
Has(d, k) == \E i \in 1 .. Len(d) : d[i].key = k

Get(d, k) == d[CHOOSE i \in 1 .. Len(d) : d[i].key = k].value

Put(d, k, v) ==
    IF Has(d, k)
    THEN [i \in 1 .. Len(d) |-> IF d[i].key = k THEN [key |-> k, value |-> v] ELSE d[i]]
    ELSE Append(d, [key |-> k, value |-> v])

Keys(d) == {d[i].key : i \in 1 .. Len(d)}

\* the "<category> Cost" and "<category> Choice" columns, Military Service left out
RECURSIVE ChoiceColumns(_)
ChoiceColumns(choices) ==
    IF choices = <<>> THEN <<>>
    ELSE LET e == Head(choices)
         IN (IF e.Category = "Military Service" THEN <<>>
             ELSE << [key |-> e.Category \o " Cost", value |-> e.Cost],
                     [key |-> e.Category \o " Choice", value |-> e.Choice] >>)
            \o ChoiceColumns(Tail(choices))

\* the data dict built when the gate is passed
BuildData(f, r) ==
    << [key |-> "Name", value |-> f.participant_name],
       [key |-> "Profession", value |-> f.Profession],
       [key |-> "Marital Status", value |-> f.marital_status],
       [key |-> "Military Service", value |-> f.Military_Service],
       [key |-> "Annual Salary", value |-> r.salary],
       [key |-> "Standard Deduction", value |-> r.standard_deduction],
       [key |-> "Taxable Income", value |-> r.taxable_income],
       [key |-> "Federal Tax", value |-> r.federal_tax],
       [key |-> "State Tax", value |-> r.state_tax],
       [key |-> "Total Tax", value |-> r.total_tax],
       [key |-> "Monthly Income After Tax", value |-> r.monthly_income_after_tax] >>
    \o ChoiceColumns(r.selected_lifestyle_choices)

\* a variant of DoppelChildren with a fault: the choice is overridden whatever
\* the cost
DoppelChildrenAlways(d) ==
    IF Has(d, "Children Choice") THEN Put(d, "Children Choice", "Military") ELSE d

\* override a: the Children choice, when the Children cost is not zero
DoppelChildren(d) ==
    IF Has(d, "Children Cost") /\ Get(d, "Children Cost") # 0
    THEN Put(d, "Children Choice", "Military")
    ELSE d

\* override b: the Who Pays for College choice
DoppelCollege(d) ==
    IF Has(d, "Who Pays for College Choice")
    THEN Put(d, "Who Pays for College Choice", "Military")
    ELSE d

\* override c: the Health Insurance choice, and its cost when the table lists the
\* military plan (0 when float() rejects the cell)
DoppelHealth(table, d) ==
    IF Has(d, "Health Insurance Choice")
    THEN LET chosen == Put(d, "Health Insurance Choice", "Military")
             mil_health_row == SelectOption(table, "Health Insurance", "Military")
         IN IF mil_health_row # <<>>
            THEN Put(chosen, "Health Insurance Cost",
                     CostOf(table, "Health Insurance", "Military"))
            ELSE chosen
    ELSE d

\* doppel_data: the copy of data with the "-mil" name and the overrides
DoppelData(table, data) ==
    LET named == Put(data, "Name", Get(data, "Name") \o "-mil")
        part_time == Put(named, "Military Service", "Part Time")
    IN DoppelHealth(table, DoppelCollege(DoppelChildren(part_time)))

(***************************************************************************)
(* Actions.  Every interaction reruns main() for its session.  A run that  *)
(* passes the gate calls worksheet.append_row twice; other sessions run    *)
(* between the two calls, so the run is two steps ("idle" -> "twin" ->     *)
(* "idle").  save_participant_data catches every exception of append_row:  *)
(* a failed call appends nothing and the run goes on.                      *)
(***************************************************************************)
\* The user changes one widget of session s; the script reruns.
Edit(s) ==
    /\ pc[s] = "idle"
    /\ edits < MaxEdits
    /\ \E f \in EditsOf(lifestyle_data, form[s]) \ {form[s]} :
          /\ form' = [form EXCEPT ![s] = f]
          /\ run' = [run EXCEPT ![s] = Main(tax_data, lifestyle_data, f)]
    /\ edits' = edits + 1
    /\ UNCHANGED <<tax_data, lifestyle_data, submitted, pc, doppel, sheet, origin, calls>>
    /\ UNCHANGED model_vars

\* The user sets the widgets of a fresh session s to any combination they can show:
\* the edits that lead there, taken as one step (a rerun between two of them
\* only recomputes what the next one computes again).
FillForm(s) ==
    /\ pc[s] = "idle"
    /\ edits = 0
    /\ \E f \in ValidForms(lifestyle_data) \ {form[s]} :
          /\ form' = [form EXCEPT ![s] = f]
          /\ run' = [run EXCEPT ![s] = Main(tax_data, lifestyle_data, f)]
    /\ edits' = edits + 1
    /\ UNCHANGED <<tax_data, lifestyle_data, submitted, pc, doppel, sheet, origin, calls>>
    /\ UNCHANGED model_vars

\* a variant of GateRefusal with a fault: money left over does not block the press
GateRefusalAllowsSurplus(participant_name, Profession, remaining_budget) ==
    IF participant_name = "" THEN "enter your name"
    ELSE IF Profession = "" THEN "select a profession"
    ELSE IF remaining_budget < 0 THEN "overspent"
    ELSE ""

\* the if / elif chain under "if submit": the notice that refuses the press, or ""
\* when the else branch (build and save the record) is taken
GateRefusal(participant_name, Profession, remaining_budget) ==
    IF participant_name = "" THEN "enter your name"
    ELSE IF Profession = "" THEN "select a profession"
    ELSE IF remaining_budget < 0 THEN "overspent"
    ELSE IF remaining_budget > 0 THEN "budget left"
    ELSE ""

\* a variant of SubmitButtonShown with a fault: the button is always there
SubmitButtonShownAlways(flag) == TRUE

\* "if st.session_state.submitted: st.info(...) else: st.button('Submit')": the
\* button is drawn only while the flag is not set
SubmitButtonShown(flag) == ~flag

\* The user presses Submit in session s: the run up to the first append_row.  A
\* press after a submission, or one the gate refuses, only shows a notice.
\* reached = FALSE: authorize_gspread or get_google_sheet ended the run (st.stop).
Submit(s) ==
    /\ pc[s] = "idle"
    /\ ~run[s].raised
    /\ LET f == form[s]
           r == run[s]
           refusal == GateRefusal(f.participant_name, f.Profession, r.remaining_budget)
           data == BuildData(f, r)
       IN IF ~SubmitButtonShown(submitted[s]) \/ refusal # ""
          THEN UNCHANGED <<submitted, pc, doppel, sheet, origin>>
          ELSE \E reached \in BOOLEAN, saved \in BOOLEAN :
                 IF ~reached
                 THEN UNCHANGED <<submitted, pc, doppel, sheet, origin>>
                 ELSE /\ sheet' = IF saved THEN Append(sheet, data) ELSE sheet
                      /\ origin' = IF saved
                                   THEN Append(origin, [session |-> s, kind |-> "original",
                                                        from |-> data])
                                   ELSE origin
                      /\ submitted' = [submitted EXCEPT ![s] = TRUE]
                      /\ doppel' = [doppel EXCEPT ![s] = DoppelData(lifestyle_data, data)]
                      /\ pc' = [pc EXCEPT ![s] = "twin"]
    /\ UNCHANGED <<tax_data, lifestyle_data, form, run, edits, calls>>
    /\ UNCHANGED model_vars

\* The rest of that run: the append_row of the doppelganger record.
SaveTwin(s) ==
    /\ pc[s] = "twin"
    /\ \E saved \in BOOLEAN :
          /\ sheet' = IF saved THEN Append(sheet, doppel[s]) ELSE sheet
          /\ origin' = IF saved
                       THEN Append(origin, [session |-> s, kind |-> "twin",
                                            from |-> BuildData(form[s], run[s])])
                       ELSE origin
    /\ pc' = [pc EXCEPT ![s] = "idle"]
    /\ doppel' = [doppel EXCEPT ![s] = <<>>]
    /\ UNCHANGED <<tax_data, lifestyle_data, form, run, submitted, edits, calls>>
    /\ UNCHANGED model_vars

(***************************************************************************)
(* Direct calls of the two tax functions, with their results recorded.     *)
(***************************************************************************)
Incomes == {0, 10000, 12000, 20000, 30000, 36000, 48000, 50000}

CallCalculateTax ==
    /\ Len(calls) < MaxCalls
    /\ \E income \in Incomes, status \in Statuses, type \in Types :
          calls' = Append(calls,
                     [fn |-> "calculate_tax", income |-> income, status |-> status,
                      type |-> type,
                      result |-> calculate_tax(income,
                                               SelectBrackets(tax_data, status, type))])
    /\ UNCHANGED <<tax_data, lifestyle_data, form, run, submitted, pc, doppel,
                   sheet, origin, edits>>
    /\ UNCHANGED model_vars

CallCalculateTaxByStatus ==
    /\ Len(calls) < MaxCalls
    /\ \E income \in Incomes, status \in Statuses :
          calls' = Append(calls,
                     [fn |-> "calculate_tax_by_status", income |-> income,
                      status |-> status,
                      result |-> calculate_tax_by_status(income, status, tax_data)])
    /\ UNCHANGED <<tax_data, lifestyle_data, form, run, submitted, pc, doppel,
                   sheet, origin, edits>>
    /\ UNCHANGED model_vars

\* the orders n rows can be in
Orders(n) == {p \in [1 .. n -> 1 .. n] : \A a, b \in 1 .. n : p[a] = p[b] => a = b}

\* the bracket sets calculate_tax is called with: those of the tax table, and the
\* Married Federal brackets without the lowest one
BracketSets(table) ==
    {SelectBrackets(table, status, type) : status \in Statuses, type \in Types}
        \cup {SelectSeq(MarriedFederalRows, LAMBDA r : r.LowerBound > 0)}

\* incomes at, between and beyond the bounds of the brackets
OrderIncomes == {0, 10000, 12000, 30000, 50000}

\* calculate_tax called with the rows of a bracket set in any order
CallCalculateTaxInOrder ==
    /\ Len(calls) < MaxOrderCalls
    /\ \E income \in OrderIncomes, brackets \in BracketSets(tax_data) :
          \E order \in Orders(Len(brackets)) :
             LET rows == [i \in 1 .. Len(brackets) |-> brackets[order[i]]]
             IN calls' = Append(calls,
                           [fn |-> "calculate_tax", income |-> income, rows |-> rows,
                            result |-> calculate_tax(income, rows)])
    /\ UNCHANGED <<tax_data, lifestyle_data, form, run, submitted, pc, doppel,
                   sheet, origin, edits>>
    /\ UNCHANGED model_vars

(***************************************************************************)
(* Specifications.                                                         *)
(*   Spec      sessions opened on the full tax table and the short         *)
(*             lifestyle table, edited widget by widget and submitted,     *)
(*             interleaved;                                                *)
(*   SpecForm  one session, on any of the tables, filled in with any       *)
(*             combination of widget values and submitted;                 *)
(*   SpecTax   the tax functions called on any of the tax tables;          *)
(*   SpecBrackets  calculate_tax called with bracket rows in any order;    *)
(*   SpecModel the financial model, defined with its actions below.        *)
(***************************************************************************)
InitSessions(forms) ==
    /\ form = forms
    /\ run = [s \in Sessions |-> Main(tax_data, lifestyle_data, forms[s])]
    /\ submitted = [s \in Sessions |-> FALSE]
    /\ pc = [s \in Sessions |-> "idle"]
    /\ doppel = [s \in Sessions |-> <<>>]
    /\ sheet = <<>>
    /\ origin = <<>>
    /\ edits = 0
    /\ calls = <<>>

\* the financial model has read nothing
InitNoModel ==
    /\ participant_df = <<>>
    /\ skill_df = <<>>
    /\ gi_bill_df = <<>>
    /\ applied = <<>>
    /\ stage = "done"
    /\ index = 0
    /\ reports = <<>>
    /\ log = <<>>
    /\ part = 1

Init ==
    /\ tax_data = FullTaxTable
    /\ lifestyle_data = CompactLifestyle
    /\ InitSessions([s \in Sessions |-> DefaultForm(lifestyle_data)])
    /\ InitNoModel

Next == \E s \in Sessions : Edit(s) \/ Submit(s) \/ SaveTwin(s)

Spec == Init /\ [][Next]_vars

FirstSession == CHOOSE s \in Sessions : \A t \in Sessions : s <= t

InitForm ==
    /\ \E tables \in (TaxTables \X {StandardLifestyle})
                        \cup ({FullTaxTable} \X LifestyleTables) :
          /\ tax_data = tables[1]
          /\ lifestyle_data = tables[2]
    /\ InitSessions([s \in Sessions |-> DefaultForm(lifestyle_data)])
    /\ InitNoModel

NextForm == FillForm(FirstSession) \/ Submit(FirstSession) \/ SaveTwin(FirstSession)

SpecForm == InitForm /\ [][NextForm]_vars

InitTax ==
    /\ tax_data \in TaxTables
    /\ lifestyle_data = StandardLifestyle
    /\ InitSessions([s \in Sessions |-> DefaultForm(lifestyle_data)])
    /\ InitNoModel

NextTax == CallCalculateTax \/ CallCalculateTaxByStatus

SpecTax == InitTax /\ [][NextTax]_vars

NextBrackets == CallCalculateTaxInOrder

SpecBrackets == InitTax /\ [][NextBrackets]_vars

(***************************************************************************)
(* The integer arithmetic of the model loses nothing: every product with a *)
(* rate or a percentage is a multiple of 100 and every annual net income a *)
(* multiple of 12.                                                         *)
(***************************************************************************)
ExactTax(income, brackets) ==
    \A i \in 1 .. Len(brackets) :
        income > brackets[i].LowerBound
            => (TaxableInBracket(income, brackets[i]) * brackets[i].Rate) % 100 = 0

ArithmeticExact ==
    /\ \A s \in Sessions :
          ~run[s].raised =>
             /\ (run[s].salary - run[s].federal_tax - run[s].state_tax) % 12 = 0
             /\ (10 * run[s].monthly_income_after_tax) % 100 = 0
             /\ \A t \in Types :
                   ExactTax(run[s].taxable_income,
                            SelectBrackets(tax_data, form[s].marital_status, t))
    /\ \A income \in Incomes, status \in Statuses, t \in Types :
          ExactTax(income, SelectBrackets(tax_data, status, t))

(***************************************************************************)
(* Properties.                                                             *)
(***************************************************************************)
\* the last row of the sheet was appended in this step, by session s
AppendedBy(s) ==
    /\ Len(sheet') = Len(sheet) + 1
    /\ origin'[Len(origin')].session = s

\* the three conditions of the gate, on the values the session shows
GateOpen(s) ==
    /\ form[s].participant_name # ""
    /\ form[s].Profession # ""
    /\ run[s].remaining_budget = 0

\* C1 -- Submission gate: a step appends a record for a session, or sets the
\* session's submitted flag, only if at that moment the session's name is not
\* empty, a profession is selected and its remaining budget is exactly 0; so a
\* press with a remaining budget above or below 0 appends nothing and leaves the
\* flag as it was.
C1_SubmissionGate ==
    [][\A s \in Sessions :
          (AppendedBy(s) \/ (~submitted[s] /\ submitted'[s])) => GateOpen(s)]_vars

\* C1 witness: one session's record is in the sheet while another session, with a
\* name entered and a budget that is not balanced, has not submitted.
C1_Witness ==
    /\ \E i \in 1 .. Len(sheet) :
          /\ origin[i].kind = "original"
          /\ submitted[origin[i].session]
          /\ run[origin[i].session].remaining_budget = 0
    /\ \E t \in Sessions :
          /\ form[t].participant_name # ""
          /\ run[t].remaining_budget # 0
          /\ ~submitted[t]
          /\ \A i \in 1 .. Len(sheet) : origin[i].session # t

\* the sum of the Cost of the entries of a ledger whose category is not in skip
RECURSIVE LedgerCost(_, _)
LedgerCost(choices, skip) ==
    IF choices = <<>> THEN 0
    ELSE (IF Head(choices).Category \in skip THEN 0 ELSE Head(choices).Cost)
         + LedgerCost(Tail(choices), skip)

\* the Cost recorded for one category of a ledger
RecordedCost(choices, category) ==
    choices[CHOOSE i \in 1 .. Len(choices) : choices[i].Category = category].Cost

\* C2 -- Budget balance: after a run has processed every category and Savings, the
\* remaining budget is the monthly income after tax, less the recorded cost of
\* every category other than Savings (Military Service counts 0), less the
\* recorded Savings cost.
C2_BudgetBalance ==
    \A s \in Sessions :
        ~run[s].raised =>
            /\ RecordedCost(run[s].selected_lifestyle_choices, "Military Service") = 0
            /\ run[s].remaining_budget =
                  run[s].monthly_income_after_tax
                  - LedgerCost(run[s].selected_lifestyle_choices, {"Savings"})
                  - RecordedCost(run[s].selected_lifestyle_choices, "Savings")

\* C2 witness: a run with expenses, with savings, and with money left over.
C2_Witness ==
    \E s \in Sessions :
        /\ ~run[s].raised
        /\ LedgerCost(run[s].selected_lifestyle_choices, {"Savings"}) > 0
        /\ RecordedCost(run[s].selected_lifestyle_choices, "Savings") > 0
        /\ run[s].remaining_budget > 0

\* the savings option is "whatever is left" in some mix of upper and lower case
ChoseWhateverIsLeft(s) ==
    Lower(Chars(form[s].Savings_Choice)) = Chars("whatever is left")

\* the savings option of the session is one whose Percentage cell reads "N%"
ChosePercentage(s) ==
    /\ ~ChoseWhateverIsLeft(s)
    /\ \E k \in 1 .. Len(lifestyle_data) :
          /\ lifestyle_data[k].Category = "Savings"
          /\ lifestyle_data[k].Option = form[s].Savings_Choice
          /\ lifestyle_data[k].Percentage # "NaN"
          /\ ParseFloat(Strip(Chars(lifestyle_data[k].Percentage), "%")).ok

\* C3 -- Savings clamp (as specified): a percentage-based savings amount
\* never exceeds what the expenses leave of the monthly income after tax.
C3_SavingsClamp ==
    \A s \in Sessions :
        (~run[s].raised /\ ChosePercentage(s)) =>
            RecordedCost(run[s].selected_lifestyle_choices, "Savings")
                <= run[s].monthly_income_after_tax
                   - LedgerCost(run[s].selected_lifestyle_choices,
                                {"Military Service", "Savings"})

\* C4 -- "Whatever is left": with that savings option, in any letter case, the
\* savings are max(income - expenses, 0), never negative, and the remaining budget
\* is 0 when the expenses do not exceed the income and the overspend otherwise.
C4_WhateverIsLeft ==
    \A s \in Sessions :
        (~run[s].raised /\ ChoseWhateverIsLeft(s)) =>
            LET income == run[s].monthly_income_after_tax
                expenses == LedgerCost(run[s].selected_lifestyle_choices,
                                       {"Military Service", "Savings"})
                savings == RecordedCost(run[s].selected_lifestyle_choices, "Savings")
            IN /\ savings = Max(income - expenses, 0)
               /\ savings >= 0
               /\ run[s].remaining_budget =
                     (IF expenses <= income THEN 0 ELSE income - expenses)

\* C4 witness: "Whatever Is Left" chosen while the expenses exceed the income.
C4_Witness ==
    \E s \in Sessions :
        /\ ~run[s].raised
        /\ form[s].Savings_Choice = "Whatever Is Left"
        /\ run[s].total_expenses > run[s].monthly_income_after_tax
        /\ run[s].calculated_savings = 0
        /\ run[s].remaining_budget < 0

\* the policy of the specification: where "Military" may be offered
MilitaryAllowed(service, category) ==
    CASE service = "No" -> FALSE
      [] service = "Part Time" ->
            category \in {"Children", "Who Pays for College", "Health Insurance"}
      [] service = "Full Time" ->
            category \in {"Housing", "Food", "Children", "Who Pays for College",
                          "Health Insurance"}

\* a sequence without its entries equal to x
Without(seq, x) == LET Keep(y) == y # x IN SelectSeq(seq, Keep)

\* C5 -- Military eligibility filter: for every category other than Savings,
\* "Military" is among the options offered exactly when the table lists it for the
\* category and the service choice allows it there; the other options are offered
\* unchanged.
C5_MilitaryFilter ==
    \A s \in Sessions :
        ~run[s].raised =>
            /\ {run[s].options[i].Category : i \in 1 .. Len(run[s].options)}
                  = {lifestyle_data[k].Category : k \in 1 .. Len(lifestyle_data)}
                        \ {"Savings"}
            /\ \A i \in 1 .. Len(run[s].options) :
                  LET category == run[s].options[i].Category
                      offered == run[s].options[i].Options
                      listed == OptionsOf(lifestyle_data, category)
                  IN /\ "Military" \in Range(offered)
                          <=> /\ "Military" \in Range(listed)
                              /\ MilitaryAllowed(form[s].Military_Service, category)
                     /\ Without(offered, "Military") = Without(listed, "Military")

\* C5 witness: a "Part Time" session is offered "Military" for Children and not
\* for Housing, though the table lists it for both.
C5_Witness ==
    \E s \in Sessions :
        /\ ~run[s].raised
        /\ form[s].Military_Service = "Part Time"
        /\ \E i, j \in 1 .. Len(run[s].options) :
              /\ run[s].options[i].Category = "Children"
              /\ "Military" \in Range(run[s].options[i].Options)
              /\ run[s].options[j].Category = "Housing"
              /\ "Military" \in Range(OptionsOf(lifestyle_data, "Housing"))
              /\ "Military" \notin Range(run[s].options[j].Options)

\* the rows of the sheet that are twins
Twins == {i \in 1 .. Len(sheet) : origin[i].kind = "twin"}

TaxColumns ==
    {"Profession", "Marital Status", "Annual Salary", "Standard Deduction",
     "Taxable Income", "Federal Tax", "State Tax", "Total Tax",
     "Monthly Income After Tax"}

ForcedChoices == {"Children Choice", "Who Pays for College Choice", "Health Insurance Choice"}

\* C6 as stated -- Military twin: the twin of a record has its profession and tax
\* fields, its name with "-mil" added, Military Service "Part Time", the Children,
\* Who Pays for College and Health Insurance choices all "Military", the Health
\* Insurance cost of the (Health Insurance, Military) option, and every other
\* field of the original.
C6_TwinAsClaimed ==
    \A i \in Twins :
        LET o == origin[i].from
            t == sheet[i]
            military == SelectOption(lifestyle_data, "Health Insurance", "Military")
        IN /\ Keys(t) = Keys(o)
           /\ Get(t, "Name") = Get(o, "Name") \o "-mil"
           /\ Get(t, "Military Service") = "Part Time"
           /\ \A k \in TaxColumns : Get(t, k) = Get(o, k)
           /\ \A k \in ForcedChoices : Has(t, k) /\ Get(t, k) = "Military"
           /\ military # <<>>
           /\ "num" \in DOMAIN military[1].MonthlyCost
           /\ Get(t, "Health Insurance Cost") = military[1].MonthlyCost.num
           /\ \A k \in Keys(o) \ (ForcedChoices
                                   \cup {"Name", "Military Service", "Health Insurance Cost"}) :
                 Get(t, k) = Get(o, k)

\* the value the twin holds in column k, from the original o
TwinValue(o, k) ==
    LET military == SelectOption(lifestyle_data, "Health Insurance", "Military")
    IN CASE k = "Name" -> Get(o, "Name") \o "-mil"
         [] k = "Military Service" -> "Part Time"
         [] k = "Children Choice" ->
               IF Get(o, "Children Cost") # 0 THEN "Military" ELSE Get(o, k)
         [] k \in {"Who Pays for College Choice", "Health Insurance Choice"} -> "Military"
         [] k = "Health Insurance Cost" ->
               IF military = <<>> THEN Get(o, k)
               ELSE IF "num" \in DOMAIN military[1].MonthlyCost
                    THEN military[1].MonthlyCost.num
                    ELSE 0
         [] OTHER -> Get(o, k)

\* C6 -- Military twin, amended: the twin has the columns of the original, in the
\* same order; its name with "-mil" added; Military Service "Part Time"; the
\* Children choice "Military" only when the original's Children cost is not 0;
\* the Who Pays for College and Health Insurance choices "Military" when the
\* original has those columns; the Health Insurance cost of the (Health Insurance,
\* Military) row when the table has one (0 when that cost is not a number); and
\* every other field, the profession and tax fields among them, unchanged.
C6_MilitaryTwin ==
    \A i \in Twins :
        LET o == origin[i].from
            t == sheet[i]
        IN /\ Len(t) = Len(o)
           /\ \A j \in 1 .. Len(o) :
                 /\ t[j].key = o[j].key
                 /\ t[j].value = TwinValue(o, o[j].key)

\* C6 witness: a twin in the sheet whose original had no children, so that its
\* Children choice is the original's, and whose Health Insurance cost was re-priced.
C6_Witness ==
    \E i \in Twins :
        /\ Get(origin[i].from, "Children Cost") = 0
        /\ Get(sheet[i], "Children Choice") = "No Children"
        /\ Get(sheet[i], "Health Insurance Choice") = "Military"
        /\ Get(sheet[i], "Health Insurance Cost") # Get(origin[i].from, "Health Insurance Cost")

\* C7 as stated -- Twin persistence: once no run is between its two appends, every
\* original in the sheet is directly followed by the twin derived from it, and
\* every twin directly follows the original it is derived from.
C7_TwinFollowsOriginal ==
    (\A s \in Sessions : pc[s] = "idle") =>
        \A i \in 1 .. Len(sheet) :
            /\ origin[i].kind = "original" =>
                  /\ i < Len(sheet)
                  /\ origin[i + 1].kind = "twin"
                  /\ origin[i + 1].from = sheet[i]
            /\ origin[i].kind = "twin" =>
                  /\ i > 1
                  /\ origin[i - 1].kind = "original"
                  /\ origin[i].from = sheet[i - 1]

\* the calls of calculate_tax made so far
TaxCalls == {i \in 1 .. Len(calls) : calls[i].fn = "calculate_tax"}

\* the calls of calculate_tax_by_status made so far
StatusCalls == {i \in 1 .. Len(calls) : calls[i].fn = "calculate_tax_by_status"}

\* a bracket set with rates that are not negative, each bracket ending where the
\* next one begins
WellFormed(brackets) ==
    LET sorted == SortByLower(brackets)
    IN /\ \A i \in 1 .. Len(sorted) : sorted[i].Rate >= 0
       /\ \A i \in 1 .. Len(sorted) - 1 :
             sorted[i].UpperBound = <<sorted[i + 1].LowerBound>>

\* C8 -- Tax monotonicity: of two calls of calculate_tax with the same well-formed
\* bracket set, the one with the larger income returns at least as much tax; and
\* a call with income 0 returns 0 when the lowest lower bound is 0.
C8_TaxMonotone ==
    \A i \in TaxCalls :
        LET brackets == SelectBrackets(tax_data, calls[i].status, calls[i].type)
        IN WellFormed(brackets) =>
              /\ \A j \in TaxCalls :
                    (/\ calls[j].status = calls[i].status
                     /\ calls[j].type = calls[i].type
                     /\ calls[i].income <= calls[j].income)
                        => calls[i].result <= calls[j].result
              /\ (/\ calls[i].income = 0
                  /\ brackets # <<>>
                  /\ SortByLower(brackets)[1].LowerBound = 0)
                     => calls[i].result = 0

\* C8 witness: two calls with the three Married Federal brackets, one income in the
\* lowest bracket and one in the highest, the second taxed more than the first.
C8_Witness ==
    \E i, j \in TaxCalls :
        /\ calls[i].status = "Married" /\ calls[i].type = "Federal"
        /\ calls[j].status = "Married" /\ calls[j].type = "Federal"
        /\ Len(SelectBrackets(tax_data, "Married", "Federal")) = 3
        /\ calls[i].income = 10000 /\ calls[j].income = 30000
        /\ calls[i].result = 1000 /\ calls[j].result = 6000

\* C9 -- calculate_tax_by_status: with Federal and State brackets both present for
\* the status, the taxable income is the income less the Standard Deduction of the
\* first Federal row, not below 0; the federal and the state tax are calculate_tax
\* of that taxable income with the Federal and the State brackets; the total is
\* their sum.  Income 50000 with Federal 10%, State 5% and deduction 12000 gives
\* 38000, 3800, 1900 and 5700.
C9_TaxByStatus ==
    \A i \in StatusCalls :
        LET federal == SelectBrackets(tax_data, calls[i].status, "Federal")
            state == SelectBrackets(tax_data, calls[i].status, "State")
            r == calls[i].result
        IN (federal # <<>> /\ state # <<>>) =>
              /\ ~r.st_error
              /\ r.taxable_income
                    = Max(0, calls[i].income - federal[1].StandardDeduction)
              /\ r.federal_tax = calculate_tax(r.taxable_income, federal)
              /\ r.state_tax = calculate_tax(r.taxable_income, state)
              /\ r.total_tax = r.federal_tax + r.state_tax
              /\ (calls[i].income = 50000 /\ calls[i].status = "Single") =>
                    Returned(r) = <<38000, 3800, 1900, 5700>>

\* C9 witness: the call with income 50000 and status Single, and its four figures.
C9_Witness ==
    \E i \in StatusCalls :
        /\ calls[i].income = 50000
        /\ calls[i].status = "Single"
        /\ calls[i].result.taxable_income = 38000
        /\ calls[i].result.total_tax = 5700

\* the table has no Federal rows or no State rows for the status
MissingTaxData(status) ==
    \/ SelectBrackets(tax_data, status, "Federal") = <<>>
    \/ SelectBrackets(tax_data, status, "State") = <<>>

\* what calculate_tax_by_status returns for the salary of some profession and a
\* status that has both kinds of rows
SuccessfulReturns ==
    {Returned(calculate_tax_by_status(Salary(p), status, tax_data)) :
        p \in {skillset_data[k].Profession : k \in DOMAIN skillset_data},
        status \in {t \in Statuses : ~MissingTaxData(t)}}

\* C10 as stated -- MissingTaxData: when the table lacks Federal or State rows for
\* the selected status, the run does not crash, what the tax computation returned
\* is not what a successful computation returns, and no record in the sheet holds
\* tax figures of a status without both kinds of rows.
C10_MissingTaxData ==
    /\ \A s \in Sessions :
          MissingTaxData(form[s].marital_status) =>
             /\ ~run[s].raised
             /\ <<run[s].taxable_income, run[s].federal_tax, run[s].state_tax,
                  run[s].total_tax>> \notin SuccessfulReturns
    /\ \A i \in 1 .. Len(sheet) : ~MissingTaxData(Get(sheet[i], "Marital Status"))

\* the rows of the sheet that session s has appended, of one kind
RecordsOf(s, kind) ==
    {i \in 1 .. Len(sheet) : origin[i].session = s /\ origin[i].kind = kind}

ChoiceCategories(record) ==
    {c \in {lifestyle_data[k].Category : k \in 1 .. Len(lifestyle_data)} :
        Has(record, c \o " Choice")}

\* C23 -- Eligibility of persisted records: in every record of the sheet,
\* original or twin, a category's choice is "Military" only if the category is in
\* the allow-list of the record's own Military Service value.
C23_PersistedEligibility ==
    \A i \in 1 .. Len(sheet) : \A c \in ChoiceCategories(sheet[i]) \ {"Savings"} :
        Get(sheet[i], c \o " Choice") = "Military"
            => MilitaryAllowed(Get(sheet[i], "Military Service"), c)

\* the sum of the "<category> Cost" columns of a record, Savings among them
RECURSIVE RecordedCosts(_, _)
RecordedCosts(record, columns) ==
    IF record = <<>> THEN 0
    ELSE (IF Head(record).key \in columns THEN Head(record).value ELSE 0)
         + RecordedCosts(Tail(record), columns)

CostColumns ==
    {lifestyle_data[k].Category \o " Cost" : k \in 1 .. Len(lifestyle_data)}

\* C24 -- Balance of persisted records: in every record of the sheet, original or
\* twin, the Monthly Income After Tax is the sum of the recorded category costs,
\* the Savings cost among them; the twin's re-priced Health Insurance cost leaves
\* no remainder.
C24_PersistedBalance ==
    \A i \in 1 .. Len(sheet) :
        Get(sheet[i], "Monthly Income After Tax") = RecordedCosts(sheet[i], CostColumns)

\* the sum, over the rows with income > lower bound, of rate * (min(income,
\* upper bound) - lower bound), a missing upper bound being +infinity; the rows
\* are taken as they come
RECURSIVE BracketSum(_, _)
BracketSum(income, rows) ==
    IF rows = <<>> THEN 0
    ELSE LET r == Head(rows)
             top == IF r.UpperBound = <<>> \/ income <= r.UpperBound[1]
                    THEN income ELSE r.UpperBound[1]
         IN (IF income > r.LowerBound THEN ((top - r.LowerBound) * r.Rate) \div 100 ELSE 0)
                + BracketSum(income, Tail(rows))

\* the bracket sets are contiguous and do not overlap: sorted by lower bound,
\* each bracket ends where the next begins
Contiguous(rows) ==
    \A r \in {rows[i] : i \in 1 .. Len(rows)} :
        \/ \A q \in {rows[i] : i \in 1 .. Len(rows)} : r.LowerBound <= q.LowerBound
        \/ \E q \in {rows[i] : i \in 1 .. Len(rows)} : q.UpperBound = <<r.LowerBound>>

\* C17 -- Bracket algorithm: for every income and every contiguous bracket set,
\* calculate_tax returns the sum over the brackets with income > lower bound of
\* rate * (min(income, upper bound) - lower bound), a missing upper bound being
\* +infinity; two calls with the same brackets in different row orders return the
\* same; and the result is 0 when the income is not above the lowest lower bound.
C17_BracketAlgorithm ==
    \A i \in 1 .. Len(calls) :
        Contiguous(calls[i].rows) =>
            /\ calls[i].result = BracketSum(calls[i].income, calls[i].rows)
            /\ \A j \in 1 .. Len(calls) :
                   (/\ calls[j].income = calls[i].income
                    /\ {calls[j].rows[k] : k \in 1 .. Len(calls[j].rows)}
                           = {calls[i].rows[k] : k \in 1 .. Len(calls[i].rows)})
                       => calls[j].result = calls[i].result
            /\ (\A k \in 1 .. Len(calls[i].rows) :
                    calls[i].income <= calls[i].rows[k].LowerBound)
                   => calls[i].result = 0

\* C17 witness: two calls with the three Married Federal brackets, one with the
\* highest bracket first and one with the lowest first, the income in the highest
\* bracket and taxed in all three.
C17_Witness ==
    \E i \in 1 .. Len(calls) :
        /\ Len(calls[i].rows) = 3
        /\ calls[i].rows[1].LowerBound = 20000
        /\ calls[i].income = 30000
        /\ calls[i].result = 1000 + 2000 + 3000
        /\ \E j \in 1 .. Len(calls) :
              /\ Len(calls[j].rows) = 3
              /\ calls[j].rows[1].LowerBound = 0
              /\ calls[j].income = 30000
              /\ calls[j].result = 6000

(***************************************************************************)
(* Financial model (app-two/src/Financial_model_app.py).                   *)
(*                                                                         *)
(* Amounts.  The savings grow by the factor 1 + monthly_rate, which is the *)
(* twelfth root of 1.05 and no rational number.  The model keeps an amount *)
(* exactly, as a polynomial in that factor with integer coefficients: the  *)
(* sequence of runs <<[coef, count], ...>> lists the coefficients from     *)
(* degree 0 upward, count equal coefficients to a run, no run empty, equal *)
(* neighbours merged and no zero coefficient at the top, so that equal     *)
(* amounts are equal values.  <<>> is 0.                                   *)
(***************************************************************************)
total_months == 300

Run(coef, count) == [coef |-> coef, count |-> count]

\* the runs of a polynomial, neighbours with the same coefficient merged
RECURSIVE Merge(_)
Merge(p) ==
    IF Len(p) <= 1 THEN SelectSeq(p, LAMBDA r : r.count > 0)
    ELSE IF p[1].count = 0 THEN Merge(Tail(p))
    ELSE LET rest == Merge(Tail(p))
         IN IF rest # <<>> /\ rest[1].coef = p[1].coef
            THEN <<Run(p[1].coef, p[1].count + rest[1].count)>> \o Tail(rest)
            ELSE <<p[1]>> \o rest

\* zero coefficients at the top removed
Normal(p) ==
    LET m == Merge(p)
    IN IF m # <<>> /\ m[Len(m)].coef = 0 THEN SubSeq(m, 1, Len(m) - 1) ELSE m

\* the amount of a plain number
Amount(x) == Normal(<<Run(x, 1)>>)

\* amount + x, x a plain number
PlusNumber(p, x) ==
    IF p = <<>> THEN Amount(x)
    ELSE Normal(<<Run(p[1].coef + x, 1), Run(p[1].coef, p[1].count - 1)>> \o Tail(p))

\* amount * (1 + monthly_rate)
TimesGrowth(p) == Normal(<<Run(0, 1)>> \o p)

\* the coefficient of degree j of an amount
RECURSIVE Coefficient(_, _)
Coefficient(p, j) ==
    IF p = <<>> THEN 0
    ELSE IF j < p[1].count THEN p[1].coef
    ELSE Coefficient(Tail(p), j - p[1].count)

(***************************************************************************)
(* Cells.  A cell of the worksheet or of a reference table is a string,    *)
(* [str |-> s], or a number, [num |-> n].                                  *)
(***************************************************************************)
Str(s) == [str |-> s]
Num(n) == [num |-> n]

IsStr(cell) == "str" \in DOMAIN cell

\* the decimal digits of a number that is not negative
RECURSIVE DecimalChars(_)
DecimalChars(n) ==
    IF n < 10 THEN <<Digits[n + 1]>>
    ELSE DecimalChars(n \div 10) \o <<Digits[(n % 10) + 1]>>

\* str(value)
StrOf(cell) == IF IsStr(cell) THEN Chars(cell.str) ELSE DecimalChars(cell.num)

\* int(value) and float(value): the number itself, or the digits of a text;
\* any other text raises ValueError (ok = FALSE)
NumberOf(cell) ==
    IF IsStr(cell) THEN ParseFloat(Chars(cell.str))
    ELSE [ok |-> TRUE, value |-> cell.num]

\* row.get(key, default) on a participant row
RowGet(row, key, default) == IF Has(row, key) THEN Get(row, key) ELSE default

(***************************************************************************)
(* Reference tables (Skillset_cost_worksheet, GI_Bill_Application).  A     *)
(* table has its column names, spelled out as characters, and its rows; a  *)
(* row has one cell per named column and, in months, the cells of the      *)
(* columns "month 1", "month 2", ... that the table has.                   *)
(***************************************************************************)
ParameterColumns == <<"Profession", "Months School", "Monthly Savings in School", "Monthly Savings">>

ReferenceRow(profession, months_school, in_school, post_school, months) ==
    [cells |-> <<profession, months_school, in_school, post_school>>, months |-> months]

ReferenceTable(columns, rows) ==
    [columns |-> [i \in 1 .. Len(columns) |-> Chars(columns[i])], rows |-> rows]

\* loan_source.columns.str.strip()
StripColumns(table) ==
    [table EXCEPT !.columns = [i \in 1 .. Len(@) |-> Strip(@[i], " ")]]

\* rename(columns={"profession": "Profession"}) of a table that has a column
\* "profession"
RenameProfession(table) ==
    [table EXCEPT !.columns = [i \in 1 .. Len(@) |->
        IF @[i] = Chars("profession") THEN Chars("Profession") ELSE @[i]]]

\* the same renaming of the columns of participant_df
RenameProfessionKey(rows) ==
    [i \in 1 .. Len(rows) |->
        [j \in 1 .. Len(rows[i]) |->
            IF rows[i][j].key = "profession"
            THEN [rows[i][j] EXCEPT !.key = "Profession"] ELSE rows[i][j]]]

HasColumn(table, name) == \E i \in 1 .. Len(table.columns) : table.columns[i] = Chars(name)

ColumnIndex(table, name) ==
    CHOOSE i \in 1 .. Len(table.columns) : table.columns[i] = Chars(name)

\* loan_row.get(name, default)
CellGet(table, loan_row, name, default) ==
    IF HasColumn(table, name) THEN loan_row.cells[ColumnIndex(table, name)] ELSE default

\* loan_source.loc[loan_source["Profession"].str.strip() == profession]: a cell
\* that is no string strips to NaN and equals nothing
Subset(table, profession) ==
    LET column == ColumnIndex(table, "Profession")
        Matches(r) == /\ IsStr(r.cells[column])
                      /\ Strip(Chars(r.cells[column].str), " ") = profession
    IN SelectSeq(table.rows, Matches)

(***************************************************************************)
(* calculate_monthly_financials.                                           *)
(***************************************************************************)
\* one entry of the returned list
Sample(m, accrued_savings, loan_value, net_worth, original_profession) ==
    [Month |-> m, AccruedSavings |-> accrued_savings, LoanValue |-> loan_value,
     NetWorth |-> net_worth, Profession |-> original_profession]

\* default_financials
DefaultFinancials(original_profession) ==
    [m \in 1 .. total_months |-> Sample(m, Amount(0), 0, Amount(0), original_profession)]

\* military_status.lower() == "no"
IsCivilian(row) ==
    Lower(Strip(StrOf(RowGet(row, "Military Service", Str(""))), " ")) = Chars("no")

\* the three parameters of step 4: int() and float() of the row's cells, a
\* missing column read as 0
Parameters(table, loan_row) ==
    LET months_school == NumberOf(CellGet(table, loan_row, "Months School", Num(0)))
        in_school == NumberOf(CellGet(table, loan_row, "Monthly Savings in School", Num(0)))
        post_school == NumberOf(CellGet(table, loan_row, "Monthly Savings", Num(0)))
    IN [ok |-> months_school.ok /\ in_school.ok /\ post_school.ok,
        months_school |-> months_school.value,
        monthly_in_school_savings |-> in_school.value,
        monthly_post_school_savings |-> post_school.value]

\* step 5, for a participant whose Military Service is not "no":
\* float(row.get("Monthly Savings", monthly_post_school_savings)), 0.0 when
\* float() raises
PostSchoolOverride(row, monthly_post_school_savings) ==
    IF ~Has(row, "Monthly Savings") THEN monthly_post_school_savings
    ELSE LET value == NumberOf(Get(row, "Monthly Savings"))
         IN IF value.ok THEN value.value ELSE 0

\* step 6: the cells of "month 1" .. "month 300" as numbers; a missing column
\* raises KeyError and a text raises ValueError (ok = FALSE)
LoanValues(loan_row) ==
    IF Len(loan_row.months) < total_months
    THEN [ok |-> FALSE, values |-> <<>>]
    ELSE IF \E i \in 1 .. total_months : ~NumberOf(loan_row.months[i]).ok
    THEN [ok |-> FALSE, values |-> <<>>]
    ELSE [ok |-> TRUE,
          values |-> [i \in 1 .. total_months |-> NumberOf(loan_row.months[i]).value]]

\* months_school > 0 and m <= months_school
InSchool(m, months_school) == months_school > 0 /\ m <= months_school

\* a variant of InSchoolSavings with a fault: the balance is compounded
InSchoolSavingsCompounded(m, accrued_savings, monthly_in_school_savings) ==
    IF m = 1 THEN Amount(monthly_in_school_savings)
    ELSE PlusNumber(TimesGrowth(accrued_savings[m - 1]), monthly_in_school_savings)

\* the in-school branch: the in-school savings are added, nothing compounds
InSchoolSavings(m, accrued_savings, monthly_in_school_savings) ==
    IF m = 1 THEN Amount(monthly_in_school_savings)
    ELSE PlusNumber(accrued_savings[m - 1], monthly_in_school_savings)

\* a variant of PostSchoolSavings with a fault: nothing compounds
PostSchoolSavingsFlat(m, accrued_savings, monthly_post_school_savings) ==
    IF m = 1 THEN Amount(monthly_post_school_savings)
    ELSE PlusNumber(accrued_savings[m - 1], monthly_post_school_savings)

\* the post-school branch: the previous balance compounds, then the
\* post-school savings are added
PostSchoolSavings(m, accrued_savings, monthly_post_school_savings) ==
    IF m = 1 THEN Amount(monthly_post_school_savings)
    ELSE PlusNumber(TimesGrowth(accrued_savings[m - 1]), monthly_post_school_savings)

\* step 7: the loop body for the months first .. last, in order; the range is
\* halved, and the first half computed before the second is begun, so that
\* the evaluation nests only a few levels deep
RECURSIVE AccruedSavings(_, _, _, _, _, _)
AccruedSavings(first, last, accrued_savings, months_school, in_school, post_school) ==
    IF first > last THEN accrued_savings
    ELSE IF first = last
    THEN LET m == first
             current_savings ==
                 IF InSchool(m, months_school)
                 THEN InSchoolSavings(m, accrued_savings, in_school)
                 ELSE PostSchoolSavings(m, accrued_savings, post_school)
         IN Append(accrued_savings, current_savings)
    ELSE LET middle == (first + last) \div 2
             so_far == AccruedSavings(first, middle, accrued_savings,
                                      months_school, in_school, post_school)
         IN IF Len(so_far) < middle THEN so_far
            ELSE AccruedSavings(middle + 1, last, so_far,
                                months_school, in_school, post_school)

\* skill_df.copy(), gi_bill_df.copy(): the caller's table after the call, given
\* the loan_source the call has worked on
CallerTable(table, loan_source) == table

\* a variant of NetWorthOf with a fault: the loan value is left out
NetWorthWithoutLoan(accrued_savings, loan_value) == accrued_savings

\* net_worth = accrued_savings[idx] + loan_values[idx]
NetWorthOf(accrued_savings, loan_value) == PlusNumber(accrued_savings, loan_value)

\* step 8: the list of the 300 samples
MonthlyFinancials(accrued_savings, loan_values, original_profession) ==
    [m \in 1 .. total_months |->
        Sample(m, accrued_savings[m], loan_values[m],
               NetWorthOf(accrued_savings[m], loan_values[m]), original_profession)]

\* What a call of calculate_monthly_financials did: whether it raised, the list
\* it returned, the table it looked the profession up in, the place it returned
\* from, the parameters it used, the reference row it read, and the caller's
\* two tables after the call.
Outcome(raised, returned, monthly_financials, loan_source, parameters, loan_row, skill, gi_bill) ==
    [raised |-> raised, returned |-> returned, monthly_financials |-> monthly_financials,
     loan_source |-> loan_source, parameters |-> parameters, loan_row |-> loan_row,
     skill_df |-> skill, gi_bill_df |-> gi_bill]

NoParameters ==
    [ok |-> FALSE, months_school |-> 0, monthly_in_school_savings |-> 0,
     monthly_post_school_savings |-> 0]

\* a variant of UsesSkillTable with a fault: the Military Service value is
\* compared as it is, not trimmed and not in lower case
UsesSkillTableExact(row) ==
    StrOf(RowGet(row, "Military Service", Str(""))) = Chars("No")

\* step 1: the civilian table is used when the Military Service value is "no"
UsesSkillTable(row) == IsCivilian(row)

calculate_monthly_financials(row, skill, gi_bill) ==
    LET civilian == UsesSkillTable(row)
        source == IF civilian THEN "skill_df" ELSE "gi_bill_df"
        loan_source == StripColumns(IF civilian THEN skill ELSE gi_bill)
        skill_after == IF civilian THEN CallerTable(skill, loan_source) ELSE skill
        gi_bill_after == IF civilian THEN gi_bill ELSE CallerTable(gi_bill, loan_source)
        Profession == RowGet(row, "Profession", Str(""))
        Result(raised, returned, list, parameters, loan_row) ==
            Outcome(raised, returned, list, source, parameters, loan_row,
                    skill_after, gi_bill_after)
    IN IF ~IsStr(Profession)
       THEN \* line 144: .strip() on a value that is no string
            Result(TRUE, "AttributeError", <<>>, NoParameters, <<>>)
       ELSE IF ~HasColumn(loan_source, "Profession")
       THEN \* line 150: loan_source["Profession"]
            Result(TRUE, "KeyError", <<>>, NoParameters, <<>>)
       ELSE
       LET original_profession == Strip(Chars(Profession.str), " ")
           subset == Subset(loan_source, original_profession)
       IN IF subset = <<>>
          THEN Result(FALSE, "not found", DefaultFinancials(original_profession),
                      NoParameters, <<>>)
          ELSE
          LET loan_row == subset[1]
              read == Parameters(loan_source, loan_row)
          IN IF ~read.ok
             THEN Result(FALSE, "parameters", DefaultFinancials(original_profession),
                         read, <<loan_row>>)
             ELSE
             LET parameters ==
                     IF IsCivilian(row) THEN read
                     ELSE [read EXCEPT !.monthly_post_school_savings =
                                           PostSchoolOverride(row, @)]
                 loan_values == LoanValues(loan_row)
             IN IF ~loan_values.ok
                THEN Result(FALSE, "loan values", DefaultFinancials(original_profession),
                            parameters, <<loan_row>>)
                ELSE Result(FALSE, "computed",
                            MonthlyFinancials(
                                AccruedSavings(1, total_months, <<>>,
                                               parameters.months_school,
                                               parameters.monthly_in_school_savings,
                                               parameters.monthly_post_school_savings),
                                loan_values.values, original_profession),
                            parameters, <<loan_row>>)

(***************************************************************************)
(* The reference tables of the model.  A loan balance is a debt, a number  *)
(* that is not positive, paid off by a fixed amount each month.            *)
(***************************************************************************)
LoanSchedule(debt, payment) ==
    [m \in 1 .. total_months |-> Num(Min(0, payment * (m - 1) - debt))]

\* a schedule with a cell that holds text
WithText(months, m) == [months EXCEPT ![m] = Str("n/a")]

CivilianRows ==
    << ReferenceRow(Str("Electrician"), Num(0), Num(0), Num(200), LoanSchedule(0, 0)),
       ReferenceRow(Str("Engineer"), Num(12), Num(104), Num(400), LoanSchedule(60000, 500)),
       ReferenceRow(Str("Plumber"), Num(6), Num(50), Num(300), LoanSchedule(6000, 250)) >>

\* a blank Profession cell, a padded profession, "Months School" held as text
GIBillRows ==
    << ReferenceRow(Num(0), Num(0), Num(0), Num(0), LoanSchedule(0, 0)),
       ReferenceRow(Str("Electrician"), Num(0), Num(0), Num(250), LoanSchedule(0, 0)),
       ReferenceRow(Str(" Engineer "), Str("12"), Num(104), Num(450),
                    LoanSchedule(12000, 500)) >>

skill_table == ReferenceTable(ParameterColumns, CivilianRows)

gi_bill_table == ReferenceTable(ParameterColumns, GIBillRows)

\* column names with blanks around them
PaddedColumns == <<" Profession ", "Months School", "Monthly Savings in School", " Monthly Savings ">>

\* every "Months School" cell is text that int() rejects
BadParameters(table) ==
    [table EXCEPT !.rows = [i \in 1 .. Len(@) |-> [@[i] EXCEPT !.cells[2] = Str("n/a")]]]

\* the table ends with the column "month 299"
ShortMonths(table) ==
    [table EXCEPT !.rows = [i \in 1 .. Len(@) |->
        [@[i] EXCEPT !.months = SubSeq(@, 1, total_months - 1)]]]

\* the cell "month 7" of every row is text
TextMonth(table) ==
    [table EXCEPT !.rows = [i \in 1 .. Len(@) |-> [@[i] EXCEPT !.months = WithText(@, 7)]]]

\* the profession column is named "profession"
LowerColumns == <<"profession", "Months School", "Monthly Savings in School", "Monthly Savings">>

\* the pairs (skill_df, gi_bill_df) the model is run with, as pd.read_csv gives
\* them
TablePairs ==
    { <<skill_table, gi_bill_table>>,
      <<ReferenceTable(LowerColumns, CivilianRows), gi_bill_table>>,
      <<ReferenceTable(PaddedColumns, CivilianRows), ReferenceTable(PaddedColumns, GIBillRows)>>,
      <<skill_table, BadParameters(gi_bill_table)>>,
      <<ShortMonths(skill_table), gi_bill_table>>,
      <<skill_table, TextMonth(gi_bill_table)>> }

(***************************************************************************)
(* The participant rows.  get_all_records gives each row as a dict of the  *)
(* worksheet's columns, a cell a string or a number.                       *)
(***************************************************************************)
\* the columns of a record of the allocator that hold text
TextKeys ==
    {"Name", "Profession", "Marital Status", "Military Service"}
        \cup {c \o " Choice" : c \in CategorySet(StandardLifestyle) \cup {"Savings"}}

\* worksheet.get_all_records on the rows the allocator has appended
get_all_records(rows) ==
    [i \in 1 .. Len(rows) |->
        [j \in 1 .. Len(rows[i]) |->
            [key |-> rows[i][j].key,
             value |-> IF rows[i][j].key \in TextKeys
                       THEN Str(rows[i][j].value) ELSE Num(rows[i][j].value)]]]

\* the two rows an accepted submission of the allocator appends: the defaults of
\* the form with the name and the military service given
SubmissionBy(participant_name, military_service_choice, marital_status) ==
    LET f == [DefaultForm(StandardLifestyle) EXCEPT
                 !.participant_name = participant_name,
                 !.Military_Service = military_service_choice,
                 !.marital_status = marital_status,
                 !.choice = DefaultChoice(StandardLifestyle, military_service_choice)]
        data == BuildData(f, Main(FullTaxTable, StandardLifestyle, f))
    IN <<data, DoppelData(StandardLifestyle, data)>>

Submission(participant_name, military_service_choice) ==
    SubmissionBy(participant_name, military_service_choice, MaritalChoices[1])

\* a row typed into the worksheet by hand
Participant(Name, Profession, military_service, more) ==
    << [key |-> "Name", value |-> Name], [key |-> "Profession", value |-> Profession],
       [key |-> "Military Service", value |-> military_service] >> \o more

MonthlySavings(cell) == <<[key |-> "Monthly Savings", value |-> cell]>>

\* the worksheets the model is run with
Worksheets ==
    { get_all_records(Submission("Al", "No")),
      get_all_records(Submission("Al", "Full Time")),
      get_all_records(SubmissionBy("Al", "Full Time", MaritalChoices[1])
                      \o SubmissionBy("Al", "Full Time", MaritalChoices[2])),
      get_all_records(Submission("Bo-mil", "Full Time")),
      << Participant(Str("Sam"), Str("Engineer"), Str(" NO "), <<>>),
         Participant(Str("Bo-mil"), Str("Electrician"), Str("no"), <<>>) >>,
      << Participant(Str("Al"), Str(" Engineer "), Str("no"), <<>>),
         Participant(Str("Al-mil"), Str("Engineer"), Str("Part Time"), MonthlySavings(Num(300))) >>,
      << Participant(Str(" Al "), Str("Plumber"), Str(" NO "), <<>>),
         Participant(Str("Al-mil"), Str("Engineer"), Str(""), MonthlySavings(Str("n/a"))),
         <<[key |-> "Name", value |-> Str("Sam")]>> >>,
      << Participant(Str("Sam"), Str("Engineer"), Str("Full Time"), <<>>),
         Participant(Str("Sam-mil"), Str("Electrician"), Str("Part Time"),
                     MonthlySavings(Num(300))) >>,
      << Participant(Str("Sam"), Num(12), Str("No"), <<>>),
         Participant(Str("Al"), Str("Electrician"), Str("No"), <<>>) >>,
      << Participant(Str("Bo-mil"), Str("Electrician"), Num(0), <<>>),
         Participant(Str("Bo-mil-mil"), Str("Plumber"), Str("Part Time"), <<>>) >> }

(***************************************************************************)
(* The file holds two scripts, one after the other, each with its own      *)
(* imports and its own loading of the tables; part tells which one runs.   *)
(* Both strip the column names and apply calculate_monthly_financials to   *)
(* every row; the first also renames a column "profession" and then        *)
(* expands the lists to long format, the second generates the reports.     *)
(* An exception nothing catches ends the script (stage "raised").  The     *)
(* column names of the worksheets carry no blanks.                         *)
(***************************************************************************)
StandardizeColumns ==
    /\ stage = "load"
    /\ skill_df' = IF part = 1 THEN RenameProfession(StripColumns(skill_df))
                   ELSE StripColumns(skill_df)
    /\ gi_bill_df' = IF part = 1 THEN RenameProfession(StripColumns(gi_bill_df))
                     ELSE StripColumns(gi_bill_df)
    /\ participant_df' = IF part = 1 THEN RenameProfessionKey(participant_df)
                         ELSE participant_df
    /\ stage' = "apply"
    /\ UNCHANGED <<applied, index, reports, log, part>>
    /\ UNCHANGED <<tax_data, lifestyle_data, form, run, submitted, pc, doppel,
                   sheet, origin, edits, calls>>

\* participant_df.apply(calculate_monthly_financials), one row at a step
ApplyRow ==
    /\ stage = "apply"
    /\ Len(applied) < Len(participant_df)
    /\ LET call == calculate_monthly_financials(participant_df[Len(applied) + 1],
                                                skill_df, gi_bill_df)
       IN /\ applied' = Append(applied, call)
          /\ skill_df' = call.skill_df
          /\ gi_bill_df' = call.gi_bill_df
          /\ stage' = IF call.raised THEN "raised"
                      ELSE IF Len(applied) + 1 < Len(participant_df) THEN "apply"
                      ELSE IF part = 1 THEN "expand" ELSE "report"
    /\ UNCHANGED <<participant_df, index, reports, log, part>>
    /\ UNCHANGED <<tax_data, lifestyle_data, form, run, submitted, pc, doppel,
                   sheet, origin, edits, calls>>

\* the expansion to long format of the first script: row["Name"] and
\* row["profession"] of every row
ExpandRows ==
    /\ stage = "expand"
    /\ stage' = IF \A i \in 1 .. Len(participant_df) :
                      Has(participant_df[i], "Name") /\ Has(participant_df[i], "profession")
                THEN "done" ELSE "raised"
    /\ UNCHANGED <<participant_df, skill_df, gi_bill_df, applied, index, reports, log, part>>
    /\ UNCHANGED <<tax_data, lifestyle_data, form, run, submitted, pc, doppel,
                   sheet, origin, edits, calls>>

\* name.endswith(suffix)
EndsWith(name, suffix) ==
    /\ Len(name) >= Len(suffix)
    /\ SubSeq(name, Len(name) - Len(suffix) + 1, Len(name)) = suffix

\* participant_df[participant_df["Name"].str.strip() == mil_name]: the indices
\* of the rows, in order
MilRows(rows, mil_name) ==
    LET Matches(i) == /\ IsStr(RowGet(rows[i], "Name", Num(0)))
                      /\ Strip(Chars(RowGet(rows[i], "Name", Num(0)).str), " ") = mil_name
    IN SelectSeq([i \in 1 .. Len(rows) |-> i], Matches)

\* a variant of get_networth_20 with a fault: the month is used as the 0-based
\* index
get_networth_20At240(nw_list) ==
    IF Len(nw_list) >= 240 THEN <<nw_list[241].NetWorth>> ELSE <<>>

\* get_networth_20: nw_list[239], the 240th sample
get_networth_20(nw_list) ==
    IF Len(nw_list) >= 240 THEN <<nw_list[240].NetWorth>> ELSE <<>>

\* generate_pair_report, as far as it can raise, with the two bars of its chart
generate_pair_report(p_row, m_row, p_list, m_list, skill) ==
    LET Profession == RowGet(p_row, "Profession", Str(""))
    IN IF ~IsStr(Profession)
       THEN [raised |-> TRUE, exception |-> "AttributeError"]
       ELSE IF ~HasColumn(skill, "profession")
       THEN [raised |-> TRUE, exception |-> "KeyError"]
       ELSE [raised |-> FALSE, exception |-> "",
             p_networth_20 |-> get_networth_20(p_list),
             m_networth_20 |-> get_networth_20(m_list)]

\* one turn of the report loop of the second script, for the row at index
ReportRow ==
    /\ stage = "report"
    /\ index <= Len(participant_df)
    /\ LET row == participant_df[index]
           Name == RowGet(row, "Name", Str(""))
           next == IF index = Len(participant_df) THEN "done" ELSE "report"
       IN IF ~IsStr(Name)
          THEN \* .strip() on a value that is no string
               /\ stage' = "raised"
               /\ UNCHANGED <<reports, log>>
          ELSE LET name == Strip(Chars(Name.str), " ")
                   mil_name == name \o Chars("-mil")
                   mil_rows == MilRows(participant_df, mil_name)
               IN IF EndsWith(name, Chars("-mil"))
                  THEN /\ stage' = next
                       /\ UNCHANGED <<reports, log>>
                  ELSE IF mil_rows = <<>>
                  THEN /\ stage' = next
                       /\ log' = Append(log, [row |-> index, name |-> name])
                       /\ UNCHANGED reports
                  ELSE LET report == generate_pair_report(
                                         row, participant_df[mil_rows[1]],
                                         applied[index].monthly_financials,
                                         applied[mil_rows[1]].monthly_financials,
                                         skill_df)
                       IN IF report.raised
                          THEN /\ stage' = "raised"
                               /\ UNCHANGED <<reports, log>>
                          ELSE /\ stage' = next
                               /\ reports' = Append(reports,
                                      [row |-> index, mil_row |-> mil_rows[1],
                                       name |-> name, mil_name |-> mil_name,
                                       p_networth_20 |-> report.p_networth_20,
                                       m_networth_20 |-> report.m_networth_20])
                               /\ UNCHANGED log
    /\ index' = index + 1
    /\ UNCHANGED <<participant_df, skill_df, gi_bill_df, applied, part>>
    /\ UNCHANGED <<tax_data, lifestyle_data, form, run, submitted, pc, doppel,
                   sheet, origin, edits, calls>>

\* the tables and the worksheet as they were read
InitModel ==
    /\ tax_data = FullTaxTable
    /\ lifestyle_data = StandardLifestyle
    /\ InitSessions([s \in Sessions |-> DefaultForm(lifestyle_data)])
    /\ participant_df \in Worksheets
    /\ \E tables \in TablePairs : skill_df = tables[1] /\ gi_bill_df = tables[2]
    /\ part \in {1, 2}
    /\ applied = <<>>
    /\ stage = "load"
    /\ index = 1
    /\ reports = <<>>
    /\ log = <<>>

NextModel ==
    \/ StandardizeColumns
    \/ ApplyRow
    \/ ExpandRows
    \/ ReportRow

SpecModel == InitModel /\ [][NextModel]_vars

(***************************************************************************)
(* Properties of the financial model.                                      *)
(***************************************************************************)
\* the calls made so far, by the number of the row
Calls == 1 .. Len(applied)

\* the table the claims name for row i: the civilian table when the Military
\* Service value, trimmed and in lower case, is "no"
SelectedTable(i) == IF IsCivilian(participant_df[i]) THEN skill_df ELSE gi_bill_df

\* the Profession cell of row i, "" when the worksheet has no such column
ProfessionCell(i) == RowGet(participant_df[i], "Profession", Str(""))

\* the rows of the selected table whose Profession, trimmed, is the trimmed
\* profession of row i
MatchingRows(i) ==
    LET table == SelectedTable(i)
    IN {k \in 1 .. Len(table.rows) :
           /\ HasColumn(table, "Profession")
           /\ IsStr(ProfessionCell(i))
           /\ IsStr(table.rows[k].cells[ColumnIndex(table, "Profession")])
           /\ Strip(Chars(table.rows[k].cells[ColumnIndex(table, "Profession")].str), " ")
                  = Strip(Chars(ProfessionCell(i).str), " ")}

\* C11 -- Series length: for every participant row and every pair of reference
\* tables, the profession found or not, the parameters or the loan columns
\* malformed or not, calculate_monthly_financials returns exactly 300 samples
\* whose Month fields are 1, 2, ..., 300 in that order.
C11_SeriesLength ==
    \A i \in Calls :
        /\ ~applied[i].raised
        /\ Len(applied[i].monthly_financials) = 300
        /\ \A m \in 1 .. 300 : applied[i].monthly_financials[m].Month = m

\* C12 -- Profession not found: when no row of the selected table has a
\* Profession equal, after trimming, to the participant's profession, the call
\* raises no error and returns 300 samples whose Accrued Savings, Loan Value and
\* Net Worth are all 0.
C12_ProfessionNotFound ==
    \A i \in Calls :
        MatchingRows(i) = {} =>
            /\ ~applied[i].raised
            /\ Len(applied[i].monthly_financials) = 300
            /\ \A m \in 1 .. 300 :
                   /\ applied[i].monthly_financials[m].AccruedSavings = Amount(0)
                   /\ applied[i].monthly_financials[m].LoanValue = 0
                   /\ applied[i].monthly_financials[m].NetWorth = Amount(0)

\* a row with bad data: a Profession that is no text or is missing, or a
\* reference row whose parameters or month columns are missing or no numbers
BadData(i) ==
    \/ ~IsStr(ProfessionCell(i))
    \/ ~Has(participant_df[i], "Profession")
    \/ \E k \in MatchingRows(i) :
           \/ ~Parameters(SelectedTable(i), SelectedTable(i).rows[k]).ok
           \/ ~LoanValues(SelectedTable(i).rows[k]).ok

\* C13 -- Batch isolation: a participant row with bad data never raises out of
\* calculate_monthly_financials, so the rows after it are still served.
C13_BatchIsolation ==
    \A i \in Calls : BadData(i) => ~applied[i].raised

\* subset.iloc[0] for row i: the first matching row of the selected table
FirstMatch(i) ==
    SelectedTable(i).rows[CHOOSE k \in MatchingRows(i) : \A l \in MatchingRows(i) : k <= l]

\* the profession of row i is found and its reference row is well-formed: the
\* three parameters and the 300 month columns are there and are numbers
FoundWellFormed(i) ==
    /\ MatchingRows(i) # {}
    /\ Parameters(SelectedTable(i), FirstMatch(i)).ok
    /\ LoanValues(FirstMatch(i)).ok

\* "Months School" and "Monthly Savings in School" of the reference row of row i
MonthsOfSchool(i) ==
    NumberOf(CellGet(SelectedTable(i), FirstMatch(i), "Months School", Num(0))).value

MonthlySavingsInSchool(i) ==
    NumberOf(CellGet(SelectedTable(i), FirstMatch(i), "Monthly Savings in School", Num(0))).value

\* savings[m] of the series of row i, savings[0] = 0
Savings(i, m) ==
    IF m = 0 THEN Amount(0) ELSE applied[i].monthly_financials[m].AccruedSavings

\* C14 -- In-school linearity: for every month m with 1 <= m <= monthsOfSchool
\* the accrued savings are m * monthlySavingsInSchool, nothing compounded; 12
\* months of school at 104 a month give 1248 in month 12.
C14_InSchoolLinearity ==
    \A i \in Calls :
        FoundWellFormed(i) =>
            /\ \A m \in 1 .. MonthsOfSchool(i) :
                   Savings(i, m) = Amount(m * MonthlySavingsInSchool(i))
            /\ (MonthsOfSchool(i) = 12 /\ MonthlySavingsInSchool(i) = 104)
                   => Savings(i, 12) = <<Run(1248, 1)>>

\* C14 witness: a series computed for 12 months of school at 104 a month.
C14_Witness ==
    \E i \in Calls :
        /\ FoundWellFormed(i)
        /\ MonthsOfSchool(i) = 12
        /\ MonthlySavingsInSchool(i) = 104
        /\ Savings(i, 12) = <<Run(1248, 1)>>
        /\ Savings(i, 1) = <<Run(104, 1)>>

\* the months whose closed form C15 spells out
ClosedFormMonths(i) ==
    {m \in {MonthsOfSchool(i) + 1, MonthsOfSchool(i) + 2, 300} : m > MonthsOfSchool(i) /\ m <= 300}

\* C15 -- Post-school compounding: for every month m with monthsOfSchool < m <=
\* 300, savings[m] = savings[m-1] * (1 + r) + monthlySavingsPostSchool, with
\* savings[0] = 0.  Unrolled: after s months of school at a a month and b a month
\* afterwards, savings[m] = s*a*(1+r)^(m-s) + b*(1 + (1+r) + ... + (1+r)^(m-s-1));
\* with s = 0, savings[1] = b and savings[2] = b*(1+r) + b.
C15_PostSchoolCompounding ==
    \A i \in Calls :
        FoundWellFormed(i) =>
            LET s == MonthsOfSchool(i)
                a == MonthlySavingsInSchool(i)
                b == applied[i].parameters.monthly_post_school_savings
            IN /\ \A m \in (s + 1) .. 300 :
                      Savings(i, m) = PlusNumber(TimesGrowth(Savings(i, m - 1)), b)
               /\ \A m \in ClosedFormMonths(i) : \A j \in 0 .. (m + 1) :
                      Coefficient(Savings(i, m), j) =
                          IF j < m - s THEN b ELSE IF j = m - s THEN s * a ELSE 0

\* C15 witness: a series with no school and one with 12 months of school, both
\* with post-school savings; the first post-school month compounds the final
\* in-school balance.
C15_Witness ==
    /\ \E i \in Calls :
          /\ FoundWellFormed(i)
          /\ MonthsOfSchool(i) = 0
          /\ Savings(i, 1) = <<Run(200, 1)>>
          /\ Savings(i, 2) = <<Run(200, 2)>>
    /\ \E i \in Calls :
          /\ FoundWellFormed(i)
          /\ MonthsOfSchool(i) = 12
          /\ Savings(i, 13) = <<Run(400, 1), Run(1248, 1)>>

\* the rows of participant_df
Records == 1 .. Len(participant_df)

\* the trimmed name of record i
NameOf(i) == Strip(StrOf(RowGet(participant_df[i], "Name", Str(""))), " ")

\* the records named as the twin of record i: its name with "-mil" after it
TwinsOf(i) == {j \in Records : NameOf(j) = NameOf(i) \o Chars("-mil")}

\* the second script has come to its end, every row with its series
ReportsEnded ==
    /\ part = 2
    /\ stage \in {"done", "raised"}
    /\ Len(applied) = Len(participant_df)
    /\ \A i \in Calls : ~applied[i].raised

\* C16 -- Report pairing: for every record whose name does not end with "-mil" a
\* pair is produced exactly when a record named name + "-mil" exists; a record
\* with no such twin is skipped with a diagnostic and no exception, and a record
\* whose name ends with "-mil" is never the civilian member of a pair.
C16_ReportPairing ==
    ReportsEnded =>
        /\ stage = "done"
        /\ \A i \in Records :
              IF EndsWith(NameOf(i), Chars("-mil"))
              THEN \A k \in 1 .. Len(reports) : reports[k].row # i
              ELSE /\ Cardinality({k \in 1 .. Len(reports) : reports[k].row = i})
                          = IF TwinsOf(i) = {} THEN 0 ELSE 1
                   /\ \A k \in 1 .. Len(reports) :
                          reports[k].row = i => reports[k].mil_row \in TwinsOf(i)
                   /\ (TwinsOf(i) = {}) <=> (\E k \in 1 .. Len(log) : log[k].row = i)

\* C18 -- Military savings override: for every participant whose Military
\* Service is not "No", the twin records the allocator writes among them, the
\* post-school monthly savings the simulator uses are the Savings cost the
\* allocator recorded for the participant, not the table's Monthly Savings.
C18_MilitarySavingsOverride ==
    \A i \in Calls :
        (/\ ~IsCivilian(participant_df[i])
         /\ Has(participant_df[i], "Savings Cost")
         /\ FoundWellFormed(i))
            => /\ applied[i].parameters.monthly_post_school_savings
                      = NumberOf(Get(participant_df[i], "Savings Cost")).value
               /\ Savings(i, MonthsOfSchool(i) + 1)
                      = PlusNumber(TimesGrowth(Savings(i, MonthsOfSchool(i))),
                                   NumberOf(Get(participant_df[i], "Savings Cost")).value)

\* the Military Service cell of row i
MilitaryService(i) == RowGet(participant_df[i], "Military Service", Str(""))

\* C19 -- Reference table selection: calculate_monthly_financials looks the
\* profession up in the civilian table if and only if the Military Service
\* value, trimmed and compared ignoring case, is "no"; for every other value
\* (Part Time, Full Time, empty or missing) it uses the GI Bill table and never
\* consults the civilian table.
C19_TableSelection ==
    \A i \in Calls :
        /\ applied[i].loan_source = "skill_df"
              <=> Lower(Strip(StrOf(MilitaryService(i)), " ")) = <<"n", "o">>
        /\ MilitaryService(i) \in {Str("No"), Str("no"), Str(" NO ")}
              => applied[i].loan_source = "skill_df"
        /\ (\/ ~Has(participant_df[i], "Military Service")
            \/ ~IsStr(MilitaryService(i))
            \/ MilitaryService(i) \in {Str("Part Time"), Str("Full Time"), Str("")})
              => applied[i].loan_source = "gi_bill_df"
        /\ applied[i].loan_source \in {"skill_df", "gi_bill_df"}
        /\ \A k \in 1 .. Len(applied[i].loan_row) :
              LET table == IF applied[i].loan_source = "skill_df" THEN skill_df
                           ELSE gi_bill_df
              IN \E l \in 1 .. Len(table.rows) : table.rows[l] = applied[i].loan_row[k]
        /\ (applied[i].loan_source = "gi_bill_df" /\ MatchingRows(i) = {} /\ ~applied[i].raised)
              => applied[i].returned = "not found"

\* C19 witness: a row with " NO " served from the civilian table, a row with an
\* empty value served from the GI Bill table and a row without the value that
\* the GI Bill table has no profession for.
C19_Witness ==
    \E i, j, k \in Calls :
        /\ MilitaryService(i) = Str(" NO ")
        /\ applied[i].loan_source = "skill_df"
        /\ applied[i].returned = "computed"
        /\ MilitaryService(j) = Str("")
        /\ Has(participant_df[j], "Military Service")
        /\ applied[j].loan_source = "gi_bill_df"
        /\ applied[j].returned = "computed"
        /\ ~Has(participant_df[k], "Military Service")
        /\ applied[k].loan_source = "gi_bill_df"
        /\ applied[k].returned = "not found"

\* the samples of every well-formed call carry the reference row's month values
\* as Loan Value and Accrued Savings + Loan Value as Net Worth
LoanFrame ==
    \A i \in Calls :
        FoundWellFormed(i) =>
            \A m \in 1 .. 300 :
                /\ applied[i].monthly_financials[m].LoanValue
                       = NumberOf(FirstMatch(i).months[m]).value
                /\ applied[i].monthly_financials[m].NetWorth
                       = PlusNumber(applied[i].monthly_financials[m].AccruedSavings,
                                    NumberOf(FirstMatch(i).months[m]).value)

\* C20 -- Net worth and loan frame: when the profession is found and its
\* reference row is well-formed, for every month m in 1..300 the sample's Loan
\* Value is the reference row's "month m" value unchanged and Net Worth[m] =
\* Accrued Savings[m] + Loan Value[m]; the call leaves the reference tables
\* passed in as they were.
C20_NetWorthAndLoanFrame ==
    /\ []LoanFrame
    /\ [][Len(applied') = Len(applied) + 1
             => skill_df' = skill_df /\ gi_bill_df' = gi_bill_df]_vars

\* C20 witness: a series computed for a reference row with a debt of 60000 paid
\* off by 500 a month: -60000 and 104 - 60000 in month 1, no debt left in month
\* 300.
C20_Witness ==
    \E i \in Calls :
        /\ FoundWellFormed(i)
        /\ applied[i].monthly_financials[1].LoanValue = -60000
        /\ applied[i].monthly_financials[1].NetWorth = <<Run(104 - 60000, 1)>>
        /\ applied[i].monthly_financials[2].LoanValue = -59500
        /\ applied[i].monthly_financials[300].LoanValue = 0
        /\ applied[i].monthly_financials[300].NetWorth
               = applied[i].monthly_financials[300].AccruedSavings
        /\ applied[i].skill_df = skill_df

\* the net worth the series of row i has in month m
NetWorthIn(i, m) == applied[i].monthly_financials[m].NetWorth

\* the net worth figures report k holds: the bars of its chart
ChartData(k) ==
    {reports[k].p_networth_20[n] : n \in 1 .. Len(reports[k].p_networth_20)}
        \cup {reports[k].m_networth_20[n] : n \in 1 .. Len(reports[k].m_networth_20)}

\* C21 as stated -- Report sampling: for both members of every pair the report
\* data contains the net worth at months 1, 120 and 240, each read from the
\* series at the 0-based index month - 1.
C21_SamplesAsClaimed ==
    \A k \in 1 .. Len(reports) : \A month \in {1, 120, 240} :
        /\ NetWorthIn(reports[k].row, month) \in ChartData(k)
        /\ NetWorthIn(reports[k].mil_row, month) \in ChartData(k)

\* C21 amended -- for both members of every pair the report data contains the
\* net worth at month 240 and at no other month, read from the series at the
\* 0-based index 239.
C21_SampleAtMonth240 ==
    \A k \in 1 .. Len(reports) :
        /\ reports[k].p_networth_20 = <<NetWorthIn(reports[k].row, 240)>>
        /\ reports[k].m_networth_20 = <<NetWorthIn(reports[k].mil_row, 240)>>
        /\ ChartData(k) = {NetWorthIn(reports[k].row, 240),
                           NetWorthIn(reports[k].mil_row, 240)}

\* C21 witness: a report for a pair whose two series differ and whose net worth
\* in months 1, 120, 239 and 241 is not that of month 240.
C21_Witness ==
    \E k \in 1 .. Len(reports) :
        /\ reports[k].p_networth_20 # reports[k].m_networth_20
        /\ \A i \in {reports[k].row, reports[k].mil_row} : \A m \in {1, 120, 239, 241} :
              NetWorthIn(i, m) # NetWorthIn(i, 240)
        /\ reports[k].p_networth_20 = <<NetWorthIn(reports[k].row, 240)>>


\* the cells of a worksheet row as the allocator wrote them
Written(row) ==
    [j \in 1 .. Len(row) |->
        [key |-> row[j].key,
         value |-> IF IsStr(row[j].value) THEN row[j].value.str ELSE row[j].value.num]]

\* record j is the twin that the allocator synthesizes from record i
SynthesizedFrom(j, i) ==
    /\ Has(participant_df[i], "Savings Cost")
    /\ participant_df[j]
          = get_all_records(<<DoppelData(StandardLifestyle, Written(participant_df[i]))>>)[1]

\* the records of the worksheet that have their synthesized twin in it
Originals == {i \in Records : \E j \in Records : SynthesizedFrom(j, i)}

\* C25 -- Pairing matches the derived twin: when the report loop has run to its
\* end over a worksheet of accepted submissions, two participants of one name or
\* a participant whose name ends in "-mil" included, every original record has a
\* report that pairs it with the twin synthesized from it, and no two reports
\* carry the same name (the report file is named after it).
C25_PairsDerivedTwin ==
    (ReportsEnded /\ stage = "done") =>
        /\ \A i \in Originals :
              \E k \in 1 .. Len(reports) :
                  /\ reports[k].row = i
                  /\ SynthesizedFrom(reports[k].mil_row, i)
        /\ \A k, l \in 1 .. Len(reports) :
              reports[k].name = reports[l].name => k = l

====
